---- MODULE Spec2Model ----
(***************************************************************************)
(* Model of the joinstr coinjoin protocol engine (rust/joinstr):           *)
(*   - the coinjoin assembler (CoinJoin) as pure operators on a record,    *)
(*   - the protocol engine Joinstr::start_coinjoin as a sequential process *)
(*     driven by a wall clock (seconds) and by the events the relay client *)
(*     hands out,                                                          *)
(*   - the message codec, the chain worker and the synchronous calls of    *)
(*     electrum::Client, the relay client, the backoff and the signer.     *)
(* Specifications:                                                         *)
(*   Spec         the engine of one participant (initiator or peer);       *)
(*   SpecLive     Spec under weak fairness of the engine's steps;          *)
(*   SpecAsm      the assembler alone, under arbitrary call sequences;     *)
(*   SpecCodec    to_json and from_str on messages and payloads;           *)
(*   SpecWorker   electrum::Client::listen_txs, its consumer, the server;  *)
(*   SpecWorkerLive  SpecWorker under weak fairness of the worker;         *)
(*   SpecClient   get_tx, get_coins_tx_at and broadcast of one Client;     *)
(*   SpecRelay    nostr::sync::NostrClient under arbitrary calls;          *)
(*   SpecBackoff  backoff::Backoff under snooze and reset;                 *)
(*   SpecSigner   WpkhHotSigner::sign on a transaction and a coin;         *)
(*   SpecBuilder  the setters of Joinstr and post on one handle;            *)
(*   SpecJoin     the engine as interface::join_coinjoin builds and starts  *)
(*                it;                                                       *)
(*   SpecListPools  the draining loop of interface::list_pools;             *)
(*   SpecLock     the engine with its sections under the state mutex;      *)
(*   SpecRestart  the engine with start_coinjoin called again.              *)
(***************************************************************************)
EXTENDS Integers, Sequences, FiniteSets, TLC

VARIABLES
    \* ---- participant state (JoinstrInner) and the locals of the engine
    pc,          \* position of start_coinjoin
    now,         \* wall clock in seconds (utils::now)
    pool,        \* JoinstrInner.pool : Option<Pool>
    electrum,    \* JoinstrInner.electrum_client is Some
    input,       \* JoinstrInner.input : Option<Coin> (the coin's outpoint)
    output,      \* JoinstrInner.output : Option<Address>
    coinjoin,    \* JoinstrInner.coinjoin : Option<CoinJoin>
    final_tx,    \* JoinstrInner.final_tx : Option<Transaction>
    clientKey,   \* identity of JoinstrInner.client
    initiator,   \* local `initiator` of start_coinjoin (pool.is_none())
    signer,      \* the `signer` argument of start_coinjoin is Some
    peers,       \* local HashSet `peers` of register_outputs
    cj,          \* local `coinjoin` of register_outputs
    expired,     \* local `expired` of the running loop
    result,      \* what start_coinjoin returned (None while running)
    ro_result,   \* what register_outputs returned (None before)
    sent,        \* DMs and events handed to the relay, in order
    broadcasts,  \* transactions handed to the chain backend, in order
    log,         \* phases of start_coinjoin that ran, in order
    lateJoin,    \* a Join of a key not in `peers` was met in output registration
    rejected,    \* the add_input errors of Tracked the engine has met
    gentx,       \* inputs and outputs at the last generate_tx attempt
    params,      \* JoinstrInner.denomination / peers / timeout / fee
    rx,          \* what the last step met on the relay client, when notable
    \* ---- assembler under arbitrary calls (SpecAsm)
    asm,         \* the CoinJoin under test
    asmOp,       \* last operation applied and its argument
    asmRes,      \* result of the last operation
    \* ---- message codec under arbitrary messages and payloads (SpecCodec)
    codec,       \* a message, its serialized form, what parsing it returned
    \* ---- chain worker, electrum::Client::listen_txs (SpecWorker)
    wpc,             \* position of listen_txs in its loop
    last_request,    \* local `last_request` : Option<Vec<Request>>
    last_id,         \* Client.last_id
    index,           \* Client.index : the requests registered, by id
    reqid_spk_map,   \* local map request id -> script of History requests
    watched_spks_sh, \* local map request id -> script hash of subscriptions
    sh_sbf_map,      \* local map script hash -> script
    retry,           \* local `retry` of the send loop
    recv,            \* request channel: CoinRequests queued, sender alive
    send,            \* response channel: responses emitted, receiver alive
    owed,            \* server: answers it owes, per request id
    wsent,           \* batches the last step handed to try_send_batch
    wgot,            \* ids answered by the batch of responses the last step received
    \* ---- synchronous calls of electrum::Client (SpecClient)
    call,            \* the call waiting in recv: its name and request id
    ret,             \* the last call that returned: name, request id, result
    wire,            \* ids of the requests the calls sent, in order
    \* ---- relay client, nostr::sync::NostrClient (SpecRelay)
    nostr,           \* NostrClient.client / .builder, and whether it was dropped
    nret,            \* the last operation: its name, what it met, its result
    relayed,         \* what the operations handed to the WsClient, in order
    \* ---- backoff::Backoff under arbitrary calls (SpecBackoff)
    backoff,         \* Backoff.current_step / .max_sleep (microseconds)
    bret,            \* the last call: its name, the step before, what it slept
    \* ---- WpkhHotSigner::sign on a transaction and a coin (SpecSigner)
    sgn,             \* the transaction, the coin, what sign returned
    \* ---- the builder setters of Joinstr (SpecBuilder)
    bld,             \* the last setter call: name, argument, field met, result
    \* ---- interface::list_pools draining the relay client (SpecListPools)
    lst,             \* list_pools: events pending, pools collected, what it returned
    \* ---- the state mutex of Joinstr around the engine's steps (SpecLock)
    lock             \* the engine's last section under the state mutex

evars == <<pc, now, pool, electrum, input, output, coinjoin, final_tx,
           clientKey, initiator, signer, peers, cj, expired, result,
           ro_result, sent, broadcasts, log, lateJoin, rejected, gentx,
           params, rx>>
avars == <<asm, asmOp, asmRes>>
cvars == <<codec>>
wvars == <<wpc, last_request, last_id, index, reqid_spk_map, watched_spks_sh,
           sh_sbf_map, retry, recv, send, owed, wsent, wgot>>
svars == <<call, ret, wire>>
nvars == <<nostr, nret, relayed>>
bvars == <<backoff, bret>>
gvars == <<sgn>>
uvars == <<bld>>
lvars == <<lst>>
mvars == <<lock>>
vars == <<evars, avars, cvars, wvars, svars, nvars, bvars, gvars,
         uvars, lvars, mvars>>
\* what the steps of each specification leave alone
notEngine == <<avars, cvars, wvars, svars, nvars, bvars, gvars, uvars, lvars, mvars>>
notAsm == <<evars, cvars, wvars, svars, nvars, bvars, gvars, uvars, lvars, mvars>>
notCodec == <<evars, avars, wvars, svars, nvars, bvars, gvars, uvars, lvars, mvars>>
notWorker == <<evars, avars, cvars, svars, nvars, bvars, gvars, uvars, lvars, mvars>>
notClient == <<evars, avars, cvars, wpc, last_request, reqid_spk_map,
               watched_spks_sh, sh_sbf_map, retry, recv, send, owed, wsent,
               wgot, nvars, bvars, gvars, uvars, lvars, mvars>>
notRelay == <<evars, avars, cvars, wvars, svars, bvars, gvars, uvars, lvars, mvars>>
notBackoff == <<evars, avars, cvars, wvars, svars, nvars, gvars, uvars, lvars, mvars>>
notSigner == <<evars, avars, cvars, wvars, svars, nvars, bvars, uvars, lvars, mvars>>
notBuilder == <<avars, cvars, wvars, svars, nvars, bvars, gvars, lvars, mvars>>
notListPools == <<evars, avars, cvars, wvars, svars, nvars, bvars, gvars,
                  uvars, mvars>>
notLock == <<avars, cvars, wvars, svars, nvars, bvars, gvars, uvars,
             lvars>>

\* ------------------------------------------------------------------------
\* Option<T> as a sequence of length 0 or 1
None == <<>>
Some(x) == <<x>>
IsSome(o) == o # <<>>
Unwrap(o) == o[1]

\* ------------------------------------------------------------------------
\* Bounds and values
MaxTime == 3
\* request ids the consumer of the chain worker may cause
MaxId == 2
\* CoinRequests waiting in the request channel
MaxQueue == 2
\* answers the server may owe for one request id, sent and sent again
MaxOwed == 2
\* responses waiting when the server answers or fails once more, and
\* failed turns of one send loop after its first Error
MaxResps == 2

\* pool parameters of the round: denomination in satoshi (0.01 BTC), minimum
\* fee rate in sat/vb, minimum number of peers
Denomination == 1000000
FeeRate == 10
MinPeers == 2
\* value of a coin in satoshi: funded with 0.011 BTC, worth less than the
\* denomination, and worth the denomination plus too small a fee
AmtOk == 1100000
AmtLow == Denomination - 100000
AmtTight == Denomination + 500

PoolId == "pool"
OtherId == "other"
kSelf == "kSelf"
kPool == "kPool"
kA == "kA"
kB == "kB"
kC == "kC"
kOther == "kOther"
NoKey == "none"

Addresses == {"aOwn", "a1", "a2", "aUsed", "aBad"}
\* addresses with confirmed or mempool history on the chain
UsedAddresses == {"aUsed"}
\* addresses that are not valid for the pool's network
WrongNetwork == {"aBad"}

Outpoints == {"o1", "o2", "o3", "o4", "oX"}
\* value of each outpoint on the chain; oX does not exist
ChainValue(o) ==
    CASE o = "o1" -> Some(AmtOk)
      [] o = "o2" -> Some(AmtTight)
      [] o = "o3" -> Some(AmtLow)
      [] o = "o4" -> Some(AmtTight)
      [] OTHER -> None

\* signed inputs a peer may send: the coin's outpoint and the amount it
\* claims (None when the amount field is absent)
SignedInput(o, a) == [outpoint |-> o, amount |-> a]
SignedInputs ==
    {SignedInput("o1", Some(AmtOk)), SignedInput("o2", Some(AmtTight)),
     SignedInput("o3", Some(AmtLow)), SignedInput("o4", Some(AmtTight)),
     SignedInput("oX", Some(AmtOk)), SignedInput("o1", None),
     SignedInput("o2", Some(AmtOk))}

RECURSIVE SumSeq(_)
SumSeq(s) == IF s = <<>> THEN 0 ELSE Head(s) + SumSeq(Tail(s))

SeqToSet(s) == {s[i] : i \in 1..Len(s)}

\* ------------------------------------------------------------------------
\* Chain backend (electrum::Client as BitcoinBackend).  Each call either
\* fails on the transport ("Err") or answers from the chain.

\* slip: Ok(txs.is_empty()) instead of Ok(!txs.is_empty())
address_already_used_negated(addr) ==
    {"Err", IF addr \in UsedAddresses THEN "false" ELSE "true"}

address_already_used(addr) ==
    {"Err", IF addr \in UsedAddresses THEN "true" ELSE "false"}

get_outpoint_value(o) == {[err |-> TRUE, value |-> None],
                          [err |-> FALSE, value |-> ChainValue(o)]}

\* ------------------------------------------------------------------------
\* Coinjoin assembler (coinjoin::CoinJoin).  Every operation returns the
\* assembler after the call and the result of the call.

\* weight of a transaction with nIn P2WPKH inputs (with witness) and
\* nOut P2WPKH outputs, in weight units, and its virtual size
Weight(nIn, nOut) == 42 + 272 * nIn + 124 * nOut
VSize(nIn, nOut) == (Weight(nIn, nOut) + 3) \div 4

CoinJoin_new(denomination, backend) ==
    [denomination |-> denomination, min_fee |-> 0, min_peers |-> 0,
     outputs |-> <<>>, inputs |-> <<>>, unsigned |-> None, tx |-> None,
     backend |-> backend]

min_peer(c, n) == [c EXCEPT !.min_peers = n]

fee(c, f) == [c EXCEPT !.min_fee = f]

outputs_len(c) == Len(c.outputs)

inputs_len(c) == Len(c.inputs)

\* slip: no finalization guard
add_output_no_finalized_guard(c, addr, used) ==
    IF \E i \in 1..Len(c.outputs) : c.outputs[i].address = addr
        THEN [cj |-> c, res |-> "AddressReuse"]
    ELSE IF c.backend /\ used = "Err" THEN [cj |-> c, res |-> "Electrum"]
    ELSE IF c.backend /\ used = "true" THEN [cj |-> c, res |-> "AddressReuse"]
    ELSE [cj |-> [c EXCEPT !.outputs =
                     Append(@, [address |-> addr, value |-> c.denomination])],
          res |-> "Ok"]

\* add_output(address); `used` is the backend's answer, read only when the
\* assembler has a backend.  A finalized assembler is never mutated.
add_output(c, addr, used) ==
    IF IsSome(c.tx) THEN [cj |-> c, res |-> "TxAlreadyFinalyzed"]
    ELSE IF \E i \in 1..Len(c.outputs) : c.outputs[i].address = addr
        THEN [cj |-> c, res |-> "AddressReuse"]
    ELSE IF c.backend /\ used = "Err" THEN [cj |-> c, res |-> "Electrum"]
    ELSE IF c.backend /\ used = "true" THEN [cj |-> c, res |-> "AddressReuse"]
    ELSE [cj |-> [c EXCEPT !.outputs =
                     Append(@, [address |-> addr, value |-> c.denomination])],
          res |-> "Ok"]

\* what add_input does once the finalization and double-spend checks passed
add_input_value(c, inp, chain) ==
    IF ~c.backend /\ inp.amount = None
        THEN [cj |-> c, res |-> "AmountMissing"]
    ELSE IF c.backend /\ chain.err THEN [cj |-> c, res |-> "Electrum"]
    ELSE IF c.backend /\ chain.value = None
        THEN [cj |-> c, res |-> "InputDoesNotExists"]
    ELSE IF c.backend /\ IsSome(inp.amount) /\ inp.amount # chain.value
        THEN [cj |-> c, res |-> "InputValueNotMatch"]
    ELSE LET value == IF c.backend THEN Unwrap(chain.value)
                      ELSE Unwrap(inp.amount)
         IN IF value < c.denomination
            THEN [cj |-> c, res |-> "InputAmountTooLow"]
            ELSE [cj |-> [c EXCEPT !.inputs =
                     Append(@, [outpoint |-> inp.outpoint, amount |-> value])],
                  res |-> "Ok"]

\* slip: no double-spend guard
add_input_no_double_spend_guard(c, inp, chain) ==
    IF IsSome(c.tx) THEN [cj |-> c, res |-> "TxAlreadyFinalyzed"]
    ELSE add_input_value(c, inp, chain)

\* add_input(SignedInput); `chain` is the backend's answer to
\* get_outpoint_value, read only when the assembler has a backend.
add_input(c, inp, chain) ==
    IF IsSome(c.tx) THEN [cj |-> c, res |-> "TxAlreadyFinalyzed"]
    ELSE IF \E i \in 1..Len(c.inputs) : c.inputs[i].outpoint = inp.outpoint
        THEN [cj |-> c, res |-> "DoubleSpend"]
    ELSE add_input_value(c, inp, chain)

\* generate_psbt(): the all-outputs, no-inputs template
generate_psbt(c, height) ==
    IF IsSome(c.unsigned) THEN [cj |-> c, res |-> "InitPsbtExists"]
    ELSE IF Len(c.outputs) < c.min_peers
        THEN [cj |-> c, res |-> "NotEnoughPeers"]
    ELSE [cj |-> [c EXCEPT !.unsigned =
                     Some([version |-> 1, lock_time |-> height,
                           input |-> <<>>, output |-> c.outputs])],
          res |-> "Ok"]

unsigned_tx(c) == c.unsigned

tx(c) == c.tx

TotalIn(c) == SumSeq([i \in 1..Len(c.inputs) |-> c.inputs[i].amount])

TotalOut(outs) == SumSeq([i \in 1..Len(outs) |-> outs[i].value])

\* generate_tx(allow_underpay): attach the inputs to the template outputs
generate_tx(c, allow_underpay) ==
    IF IsSome(c.tx) THEN [cj |-> c, res |-> "Ok"]
    ELSE IF c.unsigned = None THEN [cj |-> c, res |-> "InitPsbtNotCreated"]
    ELSE LET outs == Unwrap(c.unsigned).output
             paid == TotalIn(c) - TotalOut(outs)
             vsize == VSize(Len(c.inputs), Len(outs))
         IN IF paid < c.min_fee * vsize /\ ~allow_underpay
            THEN [cj |-> c, res |-> "FeeTooLow"]
            ELSE [cj |-> [c EXCEPT !.tx =
                     Some([version |-> 1,
                           lock_time |-> Unwrap(c.unsigned).lock_time,
                           input |-> c.inputs, output |-> outs])],
                  res |-> "Ok"]

\* ------------------------------------------------------------------------
\* Pools, timelines and pool messages

Timelines ==
    {[kind |-> "Simple", t |-> 2, max_duration |-> 0],
     [kind |-> "Fixed", t |-> 1, max_duration |-> 2],
     [kind |-> "Timeout", t |-> 1, max_duration |-> 1]}

PoolPayload(tl) ==
    [denomination |-> Denomination, peers |-> MinPeers, timeout |-> tl,
     fee |-> FeeRate]

Pool(key, payload) ==
    [id |-> PoolId, public_key |-> key, payload |-> payload,
     network |-> "regtest"]

\* the `pool` argument of start_coinjoin
PoolArgs == {None} \cup {Some(Pool(kPool, Some(PoolPayload(tl)))) : tl \in Timelines}

Results ==
    [name : {"Ok", "Nostr", "Coinjoin", "Electrum", "PoolAlreadyExists",
             "PoolNotExists", "ParamMissing", "NotEnoughPeers",
             "PeerCountNotMatch", "Timeout", "CoinjoinMissing",
             "MissingFinalTx", "PoolConnectionTimeout", "UnsignedTxNotExists",
             "SigningFail", "SignerMissing", "PsbtToInput"},
     a : 0..8, b : 0..8]

R(name) == [name |-> name, a |-> 0, b |-> 0]

R2(name, a, b) == [name |-> name, a |-> a, b |-> b]

\* a pool message (PoolMessage): its variant and the fields the variant
\* carries; Join(None) has key = NoKey
Msg(type, key, id, addr, inp) ==
    [type |-> type, key |-> key, id |-> id, addr |-> addr, inp |-> inp]

NoInput == SignedInput("", None)
Join(npub) == Msg("join", npub, "", "", NoInput)
Credentials(id, key) == Msg("credentials", key, id, "", NoInput)
Output(addr) == Msg("output", NoKey, "", addr, NoInput)
Input(inp) == Msg("input", NoKey, "", "", inp)
\* a Psbt, by the one signed input it holds; NoInput when it holds none,
\* several, or one without witness
Psbt(inp) == Msg("psbt", NoKey, "", "", inp)
Transaction == Msg("transaction", NoKey, "", "", NoInput)

\* TryFrom<Psbt> for InputDataSigned: the amount is never set
try_from_psbt(inp) ==
    IF inp = NoInput THEN None ELSE Some(SignedInput(inp.outpoint, None))

\* ---- JSON
\* a JSON value: its kind t and, by kind, a text s, or the members of an
\* object (id and s for credentials, inp for a signed input or a psbt)
JVal(t, s, id, inp) == [t |-> t, s |-> s, id |-> id, inp |-> inp]
JString(s) == JVal("string", s, "", NoInput)
\* InputDataSigned::to_json: {"txin", "witness"} and "amount" when Some
JInput(inp) == JVal("object", "", "", inp)
\* serde form of Credentials: {"id", "key"}
JCredentials(id, key) == JVal("object", key, id, NoInput)
\* a Psbt as serde_json::to_value gives it (an object), or as a string
\* holding the JSON text of a Psbt
JPsbt(t, inp) == JVal(t, "", "", inp)

\* the content of a DM: text that is not JSON, JSON that is not an object,
\* or a JSON object with its members (None: no such key)
EmptyObject ==
    [syntax |-> "object", version |-> None, type |-> None, npub |-> None,
     address |-> None, input |-> None, psbt |-> None, transaction |-> None,
     credentials |-> None]

PubKeys == {kSelf, kPool, kA, kB, kC, kOther}

\* msg_type of PoolMessage::to_json
msg_type(m) == IF m.type = "join" THEN "join_pool" ELSE m.type

\* PoolMessage::to_json
to_json(m) ==
    LET map == [EmptyObject EXCEPT !.version = Some(JString("1")),
                                   !.type = Some(JString(msg_type(m)))]
    IN CASE m.type = "psbt" ->
              [map EXCEPT !.psbt = Some(JPsbt("object", m.inp))]
         [] m.type = "transaction" ->
              [map EXCEPT !.transaction = Some(JString("rawtx"))]
         [] m.type = "join" ->
              IF m.key # NoKey
              THEN [map EXCEPT !.npub = Some(JString(m.key))]
              ELSE map
         [] m.type = "input" ->
              [map EXCEPT !.input = Some(JInput(m.inp))]
         [] m.type = "output" ->
              [map EXCEPT !.address = Some(JString(m.addr))]
         [] OTHER ->
              [map EXCEPT !.credentials = Some(JCredentials(m.id, m.key))]

ParseOk(m) == [err |-> "", msg |-> Some(m)]
ParseErr(e) == [err |-> e, msg |-> None]

\* InputDataSigned::from_value, as the "input" arm of from_str uses it
from_value(v) ==
    IF v.t # "object" THEN ParseErr("NotAnObject")
    ELSE IF v.inp = NoInput THEN ParseErr("MissingKey")
    ELSE IF v.inp.amount = None THEN ParseErr("MissingKey")
    ELSE ParseOk(Input(v.inp))

\* the arms of from_str by type
from_str_type(t, map) ==
    CASE t = "psbt" ->
            IF IsSome(map.psbt) /\ Unwrap(map.psbt).t = "string"
            THEN ParseOk(Psbt(Unwrap(map.psbt).inp))
            ELSE ParseErr("Psbt")
      [] t = "input" ->
            IF IsSome(map.input) THEN from_value(Unwrap(map.input))
            ELSE ParseErr("Input")
      [] t = "output" ->
            IF IsSome(map.address) /\ Unwrap(map.address).t = "string"
               /\ Unwrap(map.address).s \in Addresses
            THEN ParseOk(Output(Unwrap(map.address).s))
            ELSE ParseErr("Output")
      [] t = "transaction" ->
            IF IsSome(map.transaction) /\ Unwrap(map.transaction).t = "string"
               /\ Unwrap(map.transaction).s = "rawtx"
            THEN ParseOk(Transaction)
            ELSE ParseErr("Transaction")
      [] t = "join_pool" ->
            IF IsSome(map.npub)
            THEN IF Unwrap(map.npub).t = "string"
                    /\ Unwrap(map.npub).s \in PubKeys
                 THEN ParseOk(Join(Unwrap(map.npub).s))
                 ELSE ParseErr("SerdeJson")
            ELSE ParseOk(Join(NoKey))
      [] t = "credentials" ->
            IF IsSome(map.credentials)
            THEN IF Unwrap(map.credentials).t = "object"
                 THEN ParseOk(Credentials(Unwrap(map.credentials).id,
                                          Unwrap(map.credentials).s))
                 ELSE ParseErr("SerdeJson")
            ELSE ParseErr("Credential")
      [] OTHER -> ParseErr("UnknownType")

\* impl FromStr for PoolMessage
from_str(c) ==
    IF c.syntax = "invalid" THEN ParseErr("SerdeJson")
    ELSE IF c.syntax # "object" THEN ParseErr("Unknown")
    ELSE IF c.version = None \/ Unwrap(c.version).t # "string"
        THEN ParseErr("VersionMissing")
    ELSE IF Unwrap(c.version).s # "1" THEN ParseErr("VersionNotSupported")
    ELSE IF c.type = None \/ Unwrap(c.type).t # "string"
        THEN ParseErr("Unknown")
    ELSE from_str_type(Unwrap(c.type).s, c)

\* ---- what the relay hands to the engine
\* inputs peers send as Input DMs
EngineInputs ==
    {SignedInput("o1", Some(AmtOk)), SignedInput("o2", Some(AmtTight)),
     SignedInput("o3", Some(AmtLow)), SignedInput("o4", Some(AmtTight)),
     SignedInput("o1", None)}

\* pool messages peers serialize and send
EngineMessages ==
    {Join(kA), Join(NoKey), Join(kC), Credentials(PoolId, kPool),
     Credentials(OtherId, kOther), Output("a1"), Output("aUsed"),
     Output("aBad"), Output("aOwn"), Transaction}
    \cup {Input(i) : i \in EngineInputs}

\* who signs the DM of a message: a joiner for its Join, else a holder of
\* the pool key
Sender(m) ==
    IF m.type # "join" THEN kPool
    ELSE IF m.key = NoKey THEN kB ELSE m.key

\* payloads written by another implementation: a psbt as a string
ForeignPayloads ==
    {[to_json(Psbt(i)) EXCEPT !.psbt = Some(JPsbt("string", i))] :
        i \in {SignedInput("o2", None), NoInput}}

\* payloads that are no pool message: not JSON, no version, a version other
\* than "1", an unknown type
NotJson == [EmptyObject EXCEPT !.syntax = "invalid"]
NoVersion == [to_json(Join(kA)) EXCEPT !.version = None]
OtherVersion == [to_json(Join(kA)) EXCEPT !.version = Some(JString("2"))]
UnknownTypePayload == [to_json(Join(kA)) EXCEPT !.type = Some(JString("ping"))]
MalformedPayloads == {NotJson, NoVersion, OtherVersion, UnknownTypePayload}

Event(pubkey, content) == [pubkey |-> pubkey, content |-> content]

Events ==
    {Event(Sender(m), to_json(m)) : m \in EngineMessages}
    \cup {Event(kPool, c) : c \in ForeignPayloads \cup MalformedPayloads}

\* WsClient::try_receive: an error, nothing pending, or the next event
try_receive ==
    {[status |-> "Err", ev |-> Event(NoKey, EmptyObject)],
     [status |-> "Empty", ev |-> Event(NoKey, EmptyObject)]}
    \cup {[status |-> "Event", ev |-> e] : e \in Events}

\* PoolMessage::from_str on the content of each event try_receive hands out
EventParse == [e \in {r.ev : r \in try_receive} |-> from_str(e.content)]

\* PoolMessage::from_str(&event.content)
parse_event(e) ==
    IF e \in DOMAIN EventParse THEN EventParse[e] ELSE from_str(e.content)

\* the closure of try_receive_pool_msg handing the message on as parsed
join_as_parsed(m, pubkey) == m

\* the closure of try_receive_pool_msg: a Join without npub becomes a Join
\* of the event's sender
join_to_sender(m, pubkey) ==
    IF m.type = "join" /\ m.key = NoKey THEN Join(pubkey) ELSE m

\* try_receive_pool_msg raising the parse error of the payload
try_receive_pool_msg_parse_error_raised(r) ==
    IF r.status = "Err" THEN [err |-> TRUE, msg |-> None]
    ELSE IF r.status = "Empty" THEN [err |-> FALSE, msg |-> None]
    ELSE LET m == parse_event(r.ev).msg
         IN [err |-> m = None,
             msg |-> IF IsSome(m)
                     THEN Some(join_to_sender(Unwrap(m), r.ev.pubkey))
                     ELSE m]

\* NostrClient::try_receive_pool_msg on the outcome r of try_receive:
\* Err, or Ok(None), or Ok(Some(msg)) with Join(None) rewritten to the sender
try_receive_pool_msg(r) ==
    IF r.status = "Err" THEN [err |-> TRUE, msg |-> None]
    ELSE IF r.status = "Empty" THEN [err |-> FALSE, msg |-> None]
    ELSE LET m == parse_event(r.ev).msg
         IN [err |-> FALSE,
             msg |-> IF IsSome(m)
                     THEN Some(join_to_sender(Unwrap(m), r.ev.pubkey))
                     ELSE m]

\* what a step of a polling loop met on the relay client, when notable: the
\* parse error of a payload, a Join of a key already registered,
\* Credentials of another pool
NoRx == ""
ParseErrors ==
    {"SerdeJson", "Unknown", "VersionMissing", "VersionNotSupported",
     "UnknownType", "Psbt", "Input", "Output", "Transaction", "Credential",
     "NotAnObject", "MissingKey"}
RxKinds == {NoRx, "known_join", "other_credentials"} \cup ParseErrors

\* Address::is_valid_for_network
is_valid_for_network(addr) == addr \notin WrongNetwork

\* ------------------------------------------------------------------------
\* JoinstrInner helpers

pool_exists == IsSome(pool) /\ IsSome(Unwrap(pool).payload)

payload_as_ref == Unwrap(Unwrap(pool).payload)

\* slip: is_ready looking at the parameters only
is_ready_params_only ==
    /\ IsSome(params.denomination) /\ IsSome(params.peers)
    /\ IsSome(params.timeout) /\ IsSome(params.fee)

is_ready ==
    /\ pool = None
    /\ IsSome(params.denomination) /\ IsSome(params.peers)
    /\ IsSome(params.timeout) /\ IsSome(params.fee)

\* slip: a Fixed timeline may start early
start_timeline_fixed_early(tl) == <<tl.t, TRUE>>

\* (expiration, start_early)
start_timeline(tl) ==
    CASE tl.kind = "Simple" -> <<tl.t, TRUE>>
      [] tl.kind = "Fixed" -> <<tl.t, FALSE>>
      [] OTHER -> <<tl.t, TRUE>>

end_timeline(tl) ==
    CASE tl.kind = "Simple" -> tl.t
      [] tl.kind = "Fixed" -> tl.t + tl.max_duration
      [] OTHER -> tl.t + tl.max_duration

\* the deadline register_inputs computes, at time t
register_inputs_expired(tl, t) ==
    CASE tl.kind = "Simple" -> tl.t
      [] tl.kind = "Fixed" -> tl.t + tl.max_duration
      [] OTHER -> t + tl.max_duration

\* slip: the error of a phase is not propagated
Try_ignore_error(res, next) == next

\* the `?` of start_coinjoin: the next phase runs only after Ok
Try(res, next) == IF res.name = "Ok" THEN next ELSE "failed"

\* the received event carries a payload that does not parse as a PoolMessage
Unparsable(r) == r.status = "Event" /\ parse_event(r.ev).msg = None

\* the parse error of the payload of the received event
ParseError(r) == parse_event(r.ev).err

\* slip: the id of the received Credentials is not compared
credentials_match_any(id, pool_id) == TRUE

\* join_pool: the received Credentials are those of the pool being joined
credentials_match(id, pool_id) == id = pool_id

\* slip: every Join is taken for a new peer
contains_never(ps, npub) == FALSE

\* HashSet::contains on the peer set
contains(ps, npub) == npub \in ps

\* guard of the peer registration loop
peer_reg_continue(t, exp, start_early, npeers, min) ==
    (t < exp) /\ ~(start_early /\ npeers >= min)

\* guard of the output registration loop
out_reg_continue(t, exp, noutputs, npeers) ==
    (t < exp) /\ (noutputs < npeers)

\* slip: a Join met in output registration still registers the peer
out_reg_join_registers(ps, npub) == ps \cup {npub}

\* the Join arm of the output registration loop: the request is only logged
out_reg_join(ps, npub) == ps

\* slip: a peer without an output is let through
peer_count_check_less_outputs(noutputs, npeers) ==
    IF noutputs > npeers THEN R2("PeerCountNotMatch", noutputs, npeers)
    ELSE R("Ok")

\* the last arm of the checks that end register_outputs
peer_count_check(noutputs, npeers) ==
    IF noutputs # npeers THEN R2("PeerCountNotMatch", noutputs, npeers)
    ELSE R("Ok")

\* slip: the peer count is checked before the deadline
register_outputs_check_peers_first(t, exp, npeers, min, noutputs) ==
    IF npeers < min THEN R2("NotEnoughPeers", npeers, min)
    ELSE IF t > exp THEN R("Timeout")
    ELSE peer_count_check(noutputs, npeers)

\* the checks that end register_outputs
register_outputs_check(t, exp, npeers, min, noutputs) ==
    IF t > exp THEN R("Timeout")
    ELSE IF npeers < min THEN R2("NotEnoughPeers", npeers, min)
    ELSE peer_count_check(noutputs, npeers)

\* receive_outputs for one address: the add_output result is not looked at
receive_outputs(c, addr) ==
    IF is_valid_for_network(addr) THEN add_output(c, addr, "false").cj ELSE c

\* try_register_input: an add_input error is logged, never returned
try_register_input(c, inp) ==
    LET r == add_input(c, inp, [err |-> FALSE, value |-> None])
    IN [cj |-> r.cj, res |-> R("Ok"), logged |-> r.res]

\* slip: generate_tx is tried whatever the number of inputs
try_finalize_coinjoin_no_guard(c) ==
    LET r == generate_tx(c, FALSE)
    IN [cj |-> r.cj, finalized |-> r.res = "Ok", called |-> TRUE]

\* try_finalize_coinjoin: (assembler, finalized, generate_tx was called)
try_finalize_coinjoin(c) ==
    IF inputs_len(c) >= outputs_len(c)
    THEN LET r == generate_tx(c, FALSE)
         IN [cj |-> r.cj, finalized |-> r.res = "Ok", called |-> TRUE]
    ELSE [cj |-> c, finalized |-> FALSE, called |-> FALSE]

\* the check that ends register_inputs
register_inputs_check(t, exp) == IF t > exp THEN R("Timeout") ELSE R("Ok")

\* broadcast_tx: the transaction to broadcast, or the error
broadcast_tx_check(c) ==
    IF ~pool_exists THEN R("PoolNotExists")
    ELSE IF c = None THEN R("CoinjoinMissing")
    ELSE IF tx(Unwrap(c)) = None THEN R("MissingFinalTx")
    ELSE R("Ok")

\* ------------------------------------------------------------------------
\* The engine

FullParams ==
    [denomination |-> Some(Denomination), peers |-> Some(MinPeers),
     timeout |-> Some([kind |-> "Simple", t |-> 2, max_duration |-> 0]),
     fee |-> Some(FeeRate)]

\* the participant after new_initiator (+ builders, set_coin, set_address),
\* new_peer or new_peer_with_electrum
Constructed ==
    {[electrum |-> TRUE, coin |-> None, address |-> None, params |-> FullParams],
     [electrum |-> TRUE, coin |-> None, address |-> None,
      params |-> [FullParams EXCEPT !.fee = None]],
     [electrum |-> TRUE, coin |-> Some("o1"), address |-> Some("aOwn"),
      params |-> FullParams],
     [electrum |-> FALSE, coin |-> Some("o1"), address |-> Some("aOwn"),
      params |-> FullParams]}

AsmIdle ==
    /\ asm = CoinJoin_new(Denomination, FALSE)
    /\ asmOp = [name |-> "new", addr |-> "", used |-> "", inp |-> NoInput,
                before |-> asm]
    /\ asmRes = "Ok"

\* the codec harness at rest
CodecIdle == codec = [msg |-> None, wire |-> None, parsed |-> None]

\* Backoff::new_us(WAIT)
BackoffIdle ==
    /\ backoff = [current_step |-> <<0, 0>>, max_sleep |-> <<50, 0, 0, 0, 0>>]
    /\ bret = [op |-> "new", before |-> <<0, 0>>, slept |-> None,
               jitter |-> 0, n |-> 0]

\* the signer harness at rest
SignerIdle == sgn = [tx |-> None, coin |-> None, res |-> None]

\* the state mutex, not taken yet
LockIdle ==
    lock = [by |-> "", during |-> {}]

\* list_pools not called
ListPoolsIdle ==
    lst = [pc |-> "idle", start |-> <<>>, pending |-> <<>>, pools |-> <<>>,
           res |-> ""]

\* Joinstr::new: no setter called yet
BuilderIdle ==
    bld = [op |-> "new", arg |-> 0, had |-> <<>>, pool |-> <<>>,
           res |-> "Ok", relays |-> 1]

\* NostrClient::new: a builder without relay nor keys, no client
RelayIdle ==
    /\ nostr = [client |-> None,
                builder |-> Some([relay |-> None, keys |-> None]),
                alive |-> TRUE]
    /\ nret = [op |-> "new", connected |-> FALSE, result |-> "Ok",
               ev |-> None, msg |-> None]
    /\ relayed = <<>>

\* the chain worker as Client::listen starts it: a new Client, no request
\* in flight, empty maps, both channels open and empty
WorkerIdle ==
    /\ wpc = "intake" /\ last_request = None /\ last_id = 0 /\ index = {}
    /\ reqid_spk_map = {} /\ watched_spks_sh = {} /\ sh_sbf_map = {}
    /\ retry = 0
    /\ recv = [queue |-> <<>>, open |-> TRUE]
    /\ send = [out |-> <<>>, alive |-> TRUE]
    /\ owed = [i \in 1..MaxId |-> 0]
    /\ wsent = <<>> /\ wgot = None
    /\ call = None /\ wire = <<>>
    /\ RelayIdle
    /\ ret = [name |-> "", id |-> 0, result |-> ""]

Init ==
    /\ pc = "idle"
    /\ now = 0
    /\ pool = None
    /\ \E c \in Constructed :
         /\ electrum = c.electrum
         /\ input = c.coin
         /\ output = c.address
         /\ params = c.params
    /\ coinjoin = None
    /\ final_tx = None
    /\ clientKey = kSelf
    /\ initiator = FALSE
    /\ signer = FALSE
    /\ peers = {}
    /\ cj = CoinJoin_new(Denomination, FALSE)
    /\ expired = 0
    /\ result = None
    /\ ro_result = None
    /\ sent = <<>>
    /\ broadcasts = <<>>
    /\ log = <<>>
    /\ lateJoin = FALSE
    /\ rejected = {}
    /\ gentx = None
    /\ rx = NoRx
    /\ AsmIdle
    /\ CodecIdle
    /\ WorkerIdle
    /\ LockIdle
    /\ ListPoolsIdle
    /\ BuilderIdle
    /\ BackoffIdle
    /\ SignerIdle

Running == pc \notin {"idle", "done", "failed", "panicked"}

\* start_coinjoin returns res
Return(res) ==
    /\ pc' = IF res.name = "Ok" THEN "done" ELSE "failed"
    /\ result' = Some(res)

\* the current phase returned res; `next` runs only after Ok
Step(res, next) ==
    /\ pc' = Try(res, next)
    /\ result' = IF res.name = "Ok" THEN result ELSE Some(res)

Tick ==
    /\ pc \notin {"done", "failed", "panicked"}
    /\ now < MaxTime
    /\ now' = now + 1
    /\ rx' = NoRx
    /\ UNCHANGED <<pc, pool, electrum, input, output, coinjoin, final_tx,
                   clientKey, initiator, signer, peers, cj, expired, result,
                   ro_result, sent, broadcasts, log, lateJoin, rejected,
                   gentx, params>>

StartCoinjoin ==
    /\ pc = "idle"
    /\ \E p \in PoolArgs, s \in BOOLEAN :
         /\ initiator' = (p = None)
         /\ signer' = s
         /\ IF IsSome(p)
            THEN IF IsSome(pool)
                 THEN Return(R("PoolAlreadyExists")) /\ UNCHANGED pool
                 ELSE pool' = p /\ pc' = "join_pool" /\ UNCHANGED result
            ELSE pc' = "post" /\ UNCHANGED <<pool, result>>
    /\ rx' = NoRx
    /\ UNCHANGED <<now, electrum, input, output, coinjoin, final_tx,
                   clientKey, peers, cj, expired, ro_result, sent,
                   broadcasts, log, lateJoin, rejected, gentx, params>>

\* JoinstrInner::post; published tells whether post_event succeeded
Post ==
    /\ pc = "post"
    /\ \E published \in BOOLEAN :
         LET res == IF ~is_ready THEN R("ParamMissing")
                    ELSE IF ~published THEN R("Nostr")
                    ELSE R("Ok")
             payload == [denomination |-> Unwrap(params.denomination),
                         peers |-> Unwrap(params.peers),
                         timeout |-> Unwrap(params.timeout),
                         fee |-> Unwrap(params.fee)]
         IN /\ Step(res, "register_outputs")
            /\ IF res.name = "Ok"
               THEN /\ pool' = Some(Pool(clientKey, Some(payload)))
                    /\ sent' = Append(sent, [to |-> "relay",
                                             msg |-> Msg("pool", clientKey,
                                                 PoolId, "", NoInput)])
                    /\ log' = Append(log, "post")
               ELSE UNCHANGED <<pool, sent, log>>
    /\ rx' = NoRx
    /\ UNCHANGED <<now, electrum, input, output, coinjoin, final_tx,
                   clientKey, initiator, signer, peers, cj, expired,
                   ro_result, broadcasts, lateJoin, rejected, gentx, params>>

\* join_pool up to its loop: send Join(Some(my_npub)) to the pool
JoinPool ==
    /\ pc = "join_pool"
    /\ \E delivered \in BOOLEAN :
         LET res == IF ~pool_exists THEN R("PoolNotExists")
                    ELSE IF ~delivered THEN R("Nostr")
                    ELSE R("Ok")
         IN /\ Step(res, "wait_credentials")
            /\ IF res.name = "Ok"
               THEN /\ sent' = Append(sent, [to |-> Unwrap(pool).public_key,
                                             msg |-> Join(clientKey)])
                    /\ expired' = start_timeline(payload_as_ref.timeout)[1]
                    /\ log' = Append(log, "join")
               ELSE UNCHANGED <<sent, expired, log>>
    /\ rx' = NoRx
    /\ UNCHANGED <<now, pool, electrum, input, output, coinjoin, final_tx,
                   clientKey, initiator, signer, peers, cj, ro_result,
                   broadcasts, lateJoin, rejected, gentx, params>>

\* one iteration of the wait for credentials in join_pool
WaitCredentials ==
    /\ pc = "wait_credentials"
    /\ IF now < expired
       THEN \E r \in try_receive, connected \in BOOLEAN :
              LET m == try_receive_pool_msg(r)
              IN /\ rx' = IF Unparsable(r) THEN ParseError(r)
                          ELSE IF IsSome(m.msg)
                                  /\ Unwrap(m.msg).type = "credentials"
                                  /\ Unwrap(m.msg).id # Unwrap(pool).id
                          THEN "other_credentials"
                          ELSE NoRx
                 /\ IF m.err THEN Return(R("Nostr")) /\ UNCHANGED clientKey
                    ELSE IF IsSome(m.msg) /\ Unwrap(m.msg).type = "credentials"
                            /\ credentials_match(Unwrap(m.msg).id,
                                                 Unwrap(pool).id)
                    THEN IF connected
                         THEN /\ clientKey' = Unwrap(m.msg).key
                              /\ pc' = "register_outputs"
                              /\ UNCHANGED result
                         ELSE Return(R("Nostr")) /\ UNCHANGED clientKey
                    ELSE UNCHANGED <<pc, result, clientKey>>
       ELSE Return(R("PoolConnectionTimeout")) /\ UNCHANGED clientKey
            /\ rx' = NoRx
    /\ UNCHANGED <<now, pool, electrum, input, output, coinjoin, final_tx,
                   initiator, signer, peers, cj, expired, ro_result, sent,
                   broadcasts, log, lateJoin, rejected, gentx, params>>

\* register_outputs up to its first loop
RegisterOutputs ==
    /\ pc = "register_outputs"
    /\ LET res == IF ~pool_exists THEN R("PoolNotExists") ELSE R("Ok")
       IN /\ Step(res, "peer_reg")
          /\ IF res.name = "Ok"
             THEN /\ expired' = start_timeline(payload_as_ref.timeout)[1]
                  /\ peers' = {}
                  /\ cj' = fee(min_peer(CoinJoin_new(
                               payload_as_ref.denomination, FALSE),
                               payload_as_ref.peers), payload_as_ref.fee)
                  /\ log' = Append(log, "peer_reg")
             ELSE UNCHANGED <<expired, peers, cj, log>>
    /\ rx' = NoRx
    /\ UNCHANGED <<now, pool, electrum, input, output, coinjoin, final_tx,
                   clientKey, initiator, signer, ro_result, sent, broadcasts,
                   lateJoin, rejected, gentx, params>>

\* one iteration of the peer registration loop
PeerReg ==
    /\ pc = "peer_reg"
    /\ IF peer_reg_continue(now, expired,
                            start_timeline(payload_as_ref.timeout)[2],
                            Cardinality(peers), payload_as_ref.peers)
       THEN \E r \in try_receive, delivered \in BOOLEAN :
              LET m == try_receive_pool_msg(r)
              IN /\ rx' = IF Unparsable(r) THEN ParseError(r)
                          ELSE IF IsSome(m.msg) /\ Unwrap(m.msg).type = "join"
                                  /\ Unwrap(m.msg).key \in peers
                          THEN "known_join"
                          ELSE NoRx
                 /\ IF m.err \/ m.msg = None
                    THEN UNCHANGED <<pc, result, peers, sent>>
                    ELSE LET msg == Unwrap(m.msg)
                         IN IF msg.type = "join" /\ msg.key # NoKey
                            THEN IF ~contains(peers, msg.key)
                                 THEN IF initiator /\ ~delivered
                                      THEN Return(R("Nostr"))
                                           /\ UNCHANGED <<peers, sent>>
                                      ELSE /\ peers' = peers \cup {msg.key}
                                           /\ sent' = IF initiator
                                                THEN Append(sent,
                                                    [to |-> msg.key,
                                                     msg |-> Credentials(
                                                         Unwrap(pool).id, clientKey)])
                                                ELSE sent
                                           /\ UNCHANGED <<pc, result>>
                                 ELSE UNCHANGED <<pc, result, peers, sent>>
                            ELSE IF msg.type = "join"
                            THEN pc' = "panicked" /\ UNCHANGED <<result, peers, sent>>
                            ELSE UNCHANGED <<pc, result, peers, sent>>
       ELSE pc' = "rand_delay_1" /\ rx' = NoRx
            /\ UNCHANGED <<result, peers, sent>>
    /\ UNCHANGED <<now, pool, electrum, input, output, coinjoin, final_tx,
                   clientKey, initiator, signer, cj, expired, ro_result,
                   broadcasts, log, lateJoin, rejected, gentx, params>>

\* after rand_delay: register the local output, read the final deadline
RegisterOutput ==
    /\ pc = "rand_delay_1"
    /\ \E delivered \in BOOLEAN :
         LET res == IF IsSome(output) /\ ~delivered THEN R("Nostr") ELSE R("Ok")
         IN /\ Step(res, "out_reg")
            /\ cj' = IF IsSome(output)
                     THEN add_output(cj, Unwrap(output), "false").cj ELSE cj
            /\ IF res.name = "Ok"
               THEN /\ sent' = IF IsSome(output)
                               THEN Append(sent, [to |-> Unwrap(pool).public_key,
                                                  msg |-> Output(Unwrap(output))])
                               ELSE sent
                    /\ expired' = end_timeline(payload_as_ref.timeout)
                    /\ log' = Append(log, "output_reg")
               ELSE UNCHANGED <<sent, expired, log>>
    /\ rx' = NoRx
    /\ UNCHANGED <<now, pool, electrum, input, output, coinjoin, final_tx,
                   clientKey, initiator, signer, peers, ro_result, broadcasts,
                   lateJoin, rejected, gentx, params>>

\* one iteration of the output registration loop
OutReg ==
    /\ pc = "out_reg"
    /\ IF out_reg_continue(now, expired, outputs_len(cj), Cardinality(peers))
       THEN \E r \in try_receive :
              LET m == try_receive_pool_msg(r)
              IN /\ rx' = IF Unparsable(r) THEN ParseError(r) ELSE NoRx
                 /\ IF m.err \/ m.msg = None
                    THEN UNCHANGED <<pc, cj, lateJoin, peers>>
                    ELSE LET msg == Unwrap(m.msg)
                         IN CASE msg.type = "join" ->
                                   /\ lateJoin' = (lateJoin \/ msg.key \notin peers)
                                   /\ peers' = out_reg_join(peers, msg.key)
                                   /\ UNCHANGED <<pc, cj>>
                              [] msg.type = "output" ->
                                   /\ cj' = receive_outputs(cj, msg.addr)
                                   /\ UNCHANGED <<pc, lateJoin, peers>>
                              [] msg.type = "input" ->
                                   pc' = "panicked" /\ UNCHANGED <<cj, lateJoin, peers>>
                              [] OTHER -> UNCHANGED <<pc, cj, lateJoin, peers>>
       ELSE pc' = "ro_check" /\ rx' = NoRx
            /\ UNCHANGED <<cj, lateJoin, peers>>
    /\ UNCHANGED <<now, pool, electrum, input, output, coinjoin, final_tx,
                   clientKey, initiator, signer, expired, result,
                   ro_result, sent, broadcasts, log, rejected, gentx, params>>

\* the end of register_outputs
RegisterOutputsReturn ==
    /\ pc = "ro_check"
    /\ LET res == register_outputs_check(now, expired, Cardinality(peers),
                                         payload_as_ref.peers, outputs_len(cj))
       IN /\ Step(res, "generate_unsigned_tx")
          /\ ro_result' = Some(res)
          /\ IF res.name = "Ok"
             THEN coinjoin' = Some(cj) /\ log' = Append(log, "register_outputs_ok")
             ELSE UNCHANGED <<coinjoin, log>>
    /\ rx' = NoRx
    /\ UNCHANGED <<now, pool, electrum, input, output, final_tx, clientKey,
                   initiator, signer, peers, cj, expired, sent, broadcasts,
                   lateJoin, rejected, gentx, params>>

GenerateUnsignedTx ==
    /\ pc = "generate_unsigned_tx"
    /\ LET r == IF coinjoin = None
                THEN [cj |-> cj, res |-> "CoinjoinMissing"]
                ELSE generate_psbt(Unwrap(coinjoin), 0)
           res == IF r.res = "Ok" THEN R("Ok")
                  ELSE IF r.res = "CoinjoinMissing" THEN R("CoinjoinMissing")
                  ELSE R("Coinjoin")
       IN /\ Step(res, "rand_delay_2")
          /\ IF res.name = "Ok"
             THEN coinjoin' = Some(r.cj) /\ log' = Append(log, "template")
             ELSE UNCHANGED <<coinjoin, log>>
    /\ rx' = NoRx
    /\ UNCHANGED <<now, pool, electrum, input, output, final_tx, clientKey,
                   initiator, signer, peers, cj, expired, ro_result, sent,
                   broadcasts, lateJoin, rejected, gentx, params>>

\* register_input: sign the local coin and send it as an Input DM
register_input_check(signed, delivered) ==
    IF coinjoin = None THEN R("CoinjoinMissing")
    ELSE IF unsigned_tx(Unwrap(coinjoin)) = None THEN R("UnsignedTxNotExists")
    ELSE IF ~signed THEN R("SigningFail")
    ELSE IF ~pool_exists THEN R("PoolNotExists")
    ELSE IF ~delivered THEN R("Nostr")
    ELSE R("Ok")

\* slip: register_input signs a copy of the coin and keeps it
RegisterInputKeepsCoin ==
    /\ pc = "rand_delay_2"
    /\ \E signed \in BOOLEAN, delivered \in BOOLEAN :
         IF IsSome(input)
         THEN IF signer
              THEN LET res == register_input_check(signed, delivered)
                   IN /\ Step(res, "register_inputs")
                      /\ input' = input
                      /\ IF res.name = "Ok"
                         THEN /\ sent' = Append(sent,
                                    [to |-> Unwrap(pool).public_key,
                                     msg |-> Input(SignedInput(Unwrap(input),
                                                ChainValue(Unwrap(input))))])
                              /\ log' = Append(log, "input_dm")
                         ELSE UNCHANGED <<sent, log>>
              ELSE Return(R("SignerMissing")) /\ UNCHANGED <<input, sent, log>>
         ELSE pc' = "register_inputs" /\ UNCHANGED <<result, input, sent, log>>
    /\ rx' = NoRx
    /\ UNCHANGED <<now, pool, electrum, output, coinjoin, final_tx, clientKey,
                   initiator, signer, peers, cj, expired, ro_result,
                   broadcasts, lateJoin, rejected, gentx, params>>

\* after rand_delay: sign and send the local input
RegisterInput ==
    /\ pc = "rand_delay_2"
    /\ \E signed \in BOOLEAN, delivered \in BOOLEAN :
         IF IsSome(input)
         THEN IF signer
              THEN LET res == register_input_check(signed, delivered)
                   IN /\ Step(res, "register_inputs")
                      /\ input' = IF res.name \in {"CoinjoinMissing",
                                                   "UnsignedTxNotExists"}
                                  THEN input ELSE None
                      /\ IF res.name = "Ok"
                         THEN /\ sent' = Append(sent,
                                    [to |-> Unwrap(pool).public_key,
                                     msg |-> Input(SignedInput(Unwrap(input),
                                                ChainValue(Unwrap(input))))])
                              /\ log' = Append(log, "input_dm")
                         ELSE UNCHANGED <<sent, log>>
              ELSE Return(R("SignerMissing")) /\ UNCHANGED <<input, sent, log>>
         ELSE pc' = "register_inputs" /\ UNCHANGED <<result, input, sent, log>>
    /\ rx' = NoRx
    /\ UNCHANGED <<now, pool, electrum, output, coinjoin, final_tx, clientKey,
                   initiator, signer, peers, cj, expired, ro_result,
                   broadcasts, lateJoin, rejected, gentx, params>>

\* register_inputs up to its loop
RegisterInputs ==
    /\ pc = "register_inputs"
    /\ LET exp == register_inputs_expired(payload_as_ref.timeout, now)
           res == IF ~pool_exists THEN R("PoolNotExists")
                  ELSE IF coinjoin = None THEN R("CoinjoinMissing")
                  ELSE IF now > exp THEN R("Timeout")
                  ELSE R("Ok")
       IN /\ Step(res, "in_reg")
          /\ IF res.name = "Ok"
             THEN expired' = exp /\ log' = Append(log, "input_reg")
             ELSE UNCHANGED <<expired, log>>
    /\ rx' = NoRx
    /\ UNCHANGED <<now, pool, electrum, input, output, coinjoin, final_tx,
                   clientKey, initiator, signer, peers, cj, ro_result, sent,
                   broadcasts, lateJoin, rejected, gentx, params>>

\* the swallowed add_input errors that are recorded
Tracked == {"InputAmountTooLow"}

\* a received signed input: try_register_input, then try_finalize_coinjoin
OnInput(inp) ==
    LET r == try_register_input(Unwrap(coinjoin), inp)
        f == try_finalize_coinjoin(r.cj)
    IN /\ coinjoin' = Some(f.cj)
       /\ rejected' = rejected \cup ({r.logged} \cap Tracked)
       /\ gentx' = IF f.called
                   THEN Some([inputs |-> inputs_len(r.cj),
                              outputs |-> outputs_len(r.cj)])
                   ELSE gentx
       /\ pc' = IF f.finalized THEN "ri_check" ELSE pc
       /\ UNCHANGED result

\* one iteration of the input registration loop
InReg ==
    /\ pc = "in_reg"
    /\ IF now < expired /\ tx(Unwrap(coinjoin)) = None
       THEN \E r \in try_receive :
              LET m == try_receive_pool_msg(r)
              IN /\ rx' = IF Unparsable(r) THEN ParseError(r) ELSE NoRx
                 /\ IF m.err \/ m.msg = None
                    THEN UNCHANGED <<pc, result, coinjoin, rejected, gentx>>
                    ELSE LET msg == Unwrap(m.msg)
                         IN CASE msg.type = "psbt" ->
                                   IF try_from_psbt(msg.inp) = None
                                   THEN Return(R("PsbtToInput"))
                                        /\ UNCHANGED <<coinjoin, rejected, gentx>>
                                   ELSE OnInput(Unwrap(try_from_psbt(msg.inp)))
                              [] msg.type = "input" -> OnInput(msg.inp)
                              [] OTHER ->
                                   UNCHANGED <<pc, result, coinjoin, rejected, gentx>>
       ELSE pc' = "ri_check" /\ rx' = NoRx
            /\ UNCHANGED <<result, coinjoin, rejected, gentx>>
    /\ UNCHANGED <<now, pool, electrum, input, output, final_tx, clientKey,
                   initiator, signer, peers, cj, expired, ro_result, sent,
                   broadcasts, log, lateJoin, params>>

\* the end of register_inputs
RegisterInputsReturn ==
    /\ pc = "ri_check"
    /\ LET res == register_inputs_check(now, expired)
       IN /\ Step(res, "broadcast_tx")
          /\ log' = IF res.name = "Ok" THEN Append(log, "register_inputs_ok")
                    ELSE log
    /\ rx' = NoRx
    /\ UNCHANGED <<now, pool, electrum, input, output, coinjoin, final_tx,
                   clientKey, initiator, signer, peers, cj, expired,
                   ro_result, sent, broadcasts, lateJoin, rejected, gentx,
                   params>>

\* broadcast_tx; the chain call is sent or not, and answered or not
BroadcastTx ==
    /\ pc = "broadcast_tx"
    /\ \E outcome \in {"ok", "send_failed", "recv_failed"} :
         LET chk == broadcast_tx_check(coinjoin)
             res == IF chk.name # "Ok" THEN chk
                    ELSE IF electrum /\ outcome # "ok" THEN R("Electrum")
                    ELSE R("Ok")
         IN /\ Return(res)
            /\ broadcasts' = IF chk.name = "Ok" /\ electrum
                                /\ outcome # "send_failed"
                             THEN Append(broadcasts, Unwrap(tx(Unwrap(coinjoin))))
                             ELSE broadcasts
            /\ final_tx' = IF res.name = "Ok" THEN tx(Unwrap(coinjoin))
                           ELSE final_tx
            /\ log' = IF chk.name = "Ok" /\ electrum
                      THEN Append(log, "broadcast") ELSE log
    /\ rx' = NoRx
    /\ UNCHANGED <<now, pool, electrum, input, output, coinjoin, clientKey,
                   initiator, signer, peers, cj, expired, ro_result, sent,
                   lateJoin, rejected, gentx, params>>

Next ==
    \/ Tick /\ UNCHANGED notEngine
    \/ StartCoinjoin /\ UNCHANGED notEngine
    \/ Post /\ UNCHANGED notEngine
    \/ JoinPool /\ UNCHANGED notEngine
    \/ WaitCredentials /\ UNCHANGED notEngine
    \/ RegisterOutputs /\ UNCHANGED notEngine
    \/ PeerReg /\ UNCHANGED notEngine
    \/ RegisterOutput /\ UNCHANGED notEngine
    \/ OutReg /\ UNCHANGED notEngine
    \/ RegisterOutputsReturn /\ UNCHANGED notEngine
    \/ GenerateUnsignedTx /\ UNCHANGED notEngine
    \/ RegisterInput /\ UNCHANGED notEngine
    \/ RegisterInputs /\ UNCHANGED notEngine
    \/ InReg /\ UNCHANGED notEngine
    \/ RegisterInputsReturn /\ UNCHANGED notEngine
    \/ BroadcastTx /\ UNCHANGED notEngine

Spec == Init /\ [][Next]_vars

\* a step of the thread that runs start_coinjoin
EngineStep == Next /\ now' = now

\* the clock advances and the thread that runs start_coinjoin is scheduled
SpecLive ==
    /\ Init /\ [][Next]_vars
    /\ WF_vars(Tick /\ UNCHANGED notEngine)
    /\ WF_vars(EngineStep)

\* ------------------------------------------------------------------------
\* The assembler under arbitrary call sequences

AsmAddresses == {"a1", "a2", "aUsed"}

\* the engine at rest: JoinstrInner::default, start_coinjoin not called
EngineIdle ==
    /\ pc = "idle" /\ now = 0 /\ pool = None /\ electrum = FALSE
    /\ input = None /\ output = None /\ params = FullParams
    /\ coinjoin = None /\ final_tx = None /\ clientKey = kSelf
    /\ initiator = FALSE /\ signer = FALSE /\ peers = {}
    /\ cj = CoinJoin_new(Denomination, FALSE) /\ expired = 0
    /\ result = None /\ ro_result = None /\ sent = <<>>
    /\ broadcasts = <<>> /\ log = <<>> /\ lateJoin = FALSE
    /\ rejected = {} /\ gentx = None /\ rx = NoRx

AsmInit ==
    /\ EngineIdle
    /\ CodecIdle
    /\ WorkerIdle
    /\ LockIdle
    /\ ListPoolsIdle
    /\ BuilderIdle
    /\ BackoffIdle
    /\ SignerIdle
    /\ asm \in {fee(min_peer(CoinJoin_new(Denomination, b), MinPeers), FeeRate)
                 : b \in BOOLEAN}
    /\ asmOp = [name |-> "new", addr |-> "", used |-> "", inp |-> NoInput,
                before |-> asm]
    /\ asmRes = "Ok"

AsmApply(name, addr, used, inp, r) ==
    /\ asmOp' = [name |-> name, addr |-> addr, used |-> used, inp |-> inp,
                 before |-> asm]
    /\ asm' = r.cj
    /\ asmRes' = r.res

AsmAddOutput ==
    \E addr \in AsmAddresses : \E used \in address_already_used(addr) :
        AsmApply("add_output", addr, used, NoInput,
                 add_output(asm, addr, used))

AsmAddInput ==
    \E inp \in SignedInputs : \E chain \in get_outpoint_value(inp.outpoint) :
        AsmApply("add_input", "", "", inp, add_input(asm, inp, chain))

AsmGeneratePsbt ==
    AsmApply("generate_psbt", "", "", NoInput, generate_psbt(asm, 0))

\* generate_tx is called only when inputs >= outputs
AsmGenerateTx ==
    /\ inputs_len(asm) >= outputs_len(asm)
    /\ \E allow \in BOOLEAN :
          AsmApply(IF allow THEN "generate_tx(true)" ELSE "generate_tx(false)",
                   "", "", NoInput, generate_tx(asm, allow))

AsmNext ==
    \/ AsmAddOutput /\ UNCHANGED notAsm
    \/ AsmAddInput /\ UNCHANGED notAsm
    \/ AsmGeneratePsbt /\ UNCHANGED notAsm
    \/ AsmGenerateTx /\ UNCHANGED notAsm

SpecAsm == AsmInit /\ [][AsmNext]_vars

\* ------------------------------------------------------------------------
\* The message codec under arbitrary messages and payloads

\* the pool messages a participant can build
CodecMessages ==
    {Join(k) : k \in PubKeys \cup {NoKey}}
    \cup {Credentials(id, k) : id \in {PoolId, OtherId}, k \in {kPool, kOther}}
    \cup {Output(a) : a \in Addresses}
    \cup {Input(i) : i \in SignedInputs}
    \cup {Psbt(SignedInput(o, None)) : o \in Outpoints}
    \cup {Transaction}

\* payloads a relay can deliver that no to_json wrote
CodecPayloads ==
    {NotJson, [EmptyObject EXCEPT !.syntax = "array"]}
    \cup ForeignPayloads
    \cup {[to_json(m) EXCEPT !.version = v] :
            m \in CodecMessages, v \in {None, Some(JString("2"))}}
    \cup {[to_json(m) EXCEPT !.type = t] :
            m \in CodecMessages, t \in {None, Some(JString("ping"))}}

CodecInit ==
    /\ EngineIdle
    /\ AsmIdle
    /\ WorkerIdle
    /\ LockIdle
    /\ ListPoolsIdle
    /\ BuilderIdle
    /\ BackoffIdle
    /\ SignerIdle
    /\ \/ \E m \in CodecMessages :
            codec = [msg |-> Some(m), wire |-> None, parsed |-> None]
       \/ \E c \in CodecPayloads :
            codec = [msg |-> None, wire |-> Some(c), parsed |-> None]

\* PoolMessage::to_json on the message
Serialize ==
    /\ IsSome(codec.msg) /\ codec.wire = None
    /\ codec' = [codec EXCEPT !.wire = Some(to_json(Unwrap(codec.msg)))]

\* PoolMessage::from_str on the payload
Parse ==
    /\ IsSome(codec.wire) /\ codec.parsed = None
    /\ codec' = [codec EXCEPT !.parsed = Some(from_str(Unwrap(codec.wire)))]

CodecNext ==
    \/ Serialize /\ UNCHANGED notCodec
    \/ Parse /\ UNCHANGED notCodec

SpecCodec == CodecInit /\ [][CodecNext]_vars

\* ------------------------------------------------------------------------
\* The chain worker: electrum::Client::listen_txs with its consumer and the
\* server

\* threshold of the send loops (`retry > 10`)
RetryLimit == 10

Scripts == {"s1", "s2"}
Txids == {"t1", "t2"}

\* CoinRequest; the scripts or txids as the Vec the consumer gives
CoinRequest(kind, items) == [kind |-> kind, items |-> items]
CoinRequests ==
    {CoinRequest("Subscribe", <<"s1">>), CoinRequest("History", <<"s1", "s2">>),
     CoinRequest("Txs", <<>>), CoinRequest("Txs", <<"t1">>),
     CoinRequest("Stop", <<>>)}

\* a server request: Request::subscribe_sh / sh_get_history / tx_get with
\* the id Client::register gave it
Request(id, method, arg) == [id |-> id, method |-> method, arg |-> arg]

method_of(kind) ==
    CASE kind = "Subscribe" -> "subscribe_sh"
      [] kind = "History" -> "sh_get_history"
      [] OTHER -> "tx_get"

\* the batch the intake builds for a CoinRequest: one registered request per
\* item, ids counting on from Client.last_id
Batch(kind, items, from) ==
    [i \in 1..Len(items) |-> Request(from + i, method_of(kind), items[i])]

BatchIds(b) == {b[i].id : i \in 1..Len(b)}
BatchSet(b) == {b[i] : i \in 1..Len(b)}

\* a server response; Response::id() is None for a notification
Response(kind, id, arg) == [kind |-> kind, id |-> id, arg |-> arg]

\* the response the raw client builds for an answer to request rq, typed by
\* the index: the result, or the server's error for it
ResponseTo(rq, err) ==
    IF err THEN Response("Error", Some(rq.id), rq.arg)
    ELSE Response(CASE rq.method = "subscribe_sh" -> "SHSubscribe"
                    [] rq.method = "sh_get_history" -> "SHGetHistory"
                    [] OTHER -> "TxGet",
                  Some(rq.id), rq.arg)

Notification(sh) == Response("SHNotification", None, sh)

\* the intake guard of the loop: `if last_request.is_none()` taking always
may_take_request_always(lr) == TRUE

\* the intake guard of the loop: `if last_request.is_none()`
may_take_request(lr) == lr = None

\* responses_matches_requests with any in place of all
responses_matches_requests_any(req, resp) ==
    \E i \in 1..Len(req) : \E response \in resp : response.id = Some(req[i].id)

\* fn responses_matches_requests
responses_matches_requests(req, resp) ==
    \A i \in 1..Len(req) : \E response \in resp : response.id = Some(req[i].id)

\* ids the server still owes an answer for
OwedIds == {i \in 1..MaxId : owed[i] > 0}

\* the server receives batch ids / has answered ids
Receives(o, ids) == [i \in 1..MaxId |-> IF i \in ids THEN o[i] + 1 ELSE o[i]]
Answers(o, ids) == [i \in 1..MaxId |-> IF i \in ids THEN o[i] - 1 ELSE o[i]]

\* send.send(rsp): the response joins the channel while the consumer holds
\* the receiver
Emit(ch, rsps) == [ch EXCEPT !.out = @ \o rsps]
Repeat(x, n) == [i \in 1..n |-> x]
Card(S) == Cardinality(S)

\* ids that waiting CoinRequests will take
RECURSIVE QueuedIds(_)
QueuedIds(q) == IF q = <<>> THEN 0 ELSE Len(Head(q).items) + QueuedIds(Tail(q))

\* the consumer sends a CoinRequest
ConsumerRequest ==
    /\ recv.open /\ Len(recv.queue) < MaxQueue
    /\ \E rq \in CoinRequests :
         /\ last_id + QueuedIds(recv.queue) + Len(rq.items) <= MaxId
         /\ recv' = [recv EXCEPT !.queue = Append(@, rq)]
    /\ wsent' = <<>> /\ wgot' = None
    /\ UNCHANGED <<wpc, last_request, last_id, index, reqid_spk_map,
                   watched_spks_sh, sh_sbf_map, retry, send, owed>>

\* the consumer drops the request sender
ConsumerClose ==
    /\ recv.open
    /\ recv' = [recv EXCEPT !.open = FALSE]
    /\ wsent' = <<>> /\ wgot' = None
    /\ UNCHANGED <<wpc, last_request, last_id, index, reqid_spk_map,
                   watched_spks_sh, sh_sbf_map, retry, send, owed>>

\* the consumer drops the response receiver
ConsumerDrop ==
    /\ send.alive
    /\ send' = [send EXCEPT !.alive = FALSE]
    /\ wsent' = <<>> /\ wgot' = None
    /\ UNCHANGED <<wpc, last_request, last_id, index, reqid_spk_map,
                   watched_spks_sh, sh_sbf_map, retry, recv, owed>>

\* the intake of one loop iteration, up to the send loop: at most one
\* CoinRequest is taken, and only with nothing in flight
WIntake ==
    /\ wpc = "intake"
    /\ wsent' = <<>> /\ wgot' = None
    /\ UNCHANGED owed
    /\ IF ~may_take_request(last_request)
       THEN /\ wpc' = "respond"
            /\ UNCHANGED <<last_request, last_id, index, reqid_spk_map,
                           watched_spks_sh, sh_sbf_map, retry, recv, send>>
       ELSE IF recv.queue # <<>>
       THEN LET rq == Head(recv.queue)
                batch == Batch(rq.kind, rq.items, last_id)
            IN /\ recv' = [recv EXCEPT !.queue = Tail(@)]
               /\ IF rq.kind = "Stop"
                  THEN /\ IF send.alive
                          THEN /\ send' = Emit(send, <<"Stopped">>)
                               /\ wpc' = "returned"
                          ELSE /\ wpc' = "panicked"
                               /\ UNCHANGED send
                       /\ UNCHANGED <<last_request, last_id, index,
                                      reqid_spk_map, watched_spks_sh,
                                      sh_sbf_map, retry>>
                  ELSE /\ last_id' = last_id + Len(batch)
                       /\ index' = index \cup BatchSet(batch)
                       /\ watched_spks_sh' =
                            IF rq.kind = "Subscribe"
                            THEN watched_spks_sh \cup
                                 {[id |-> r.id, sh |-> r.arg] : r \in BatchSet(batch)}
                            ELSE watched_spks_sh
                       /\ sh_sbf_map' =
                            IF rq.kind = "Subscribe"
                            THEN sh_sbf_map \cup {r.arg : r \in BatchSet(batch)}
                            ELSE sh_sbf_map
                       /\ reqid_spk_map' =
                            IF rq.kind = "History"
                            THEN reqid_spk_map \cup
                                 {[id |-> r.id, spk |-> r.arg] : r \in BatchSet(batch)}
                            ELSE reqid_spk_map
                       /\ IF batch # <<>>
                          THEN /\ last_request' = Some(batch)
                               /\ retry' = 0
                               /\ wpc' = "send"
                          ELSE /\ wpc' = "respond"
                               /\ UNCHANGED <<last_request, retry>>
                       /\ UNCHANGED send
       ELSE /\ wpc' = IF recv.open THEN "respond" ELSE "returned"
            /\ UNCHANGED <<last_request, last_id, index, reqid_spk_map,
                           watched_spks_sh, sh_sbf_map, retry, recv, send>>

\* the send loop of the batch just built,
\* `while let Err(e) = try_send_batch(batch)`, up to its next effect: the
\* turns that fail with retry <= 10 only count and sleep, so they are taken
\* together with the turn that succeeds or that emits an Error. The
\* Subscribe and History loops emit the Error with expect, the Txs loop
\* returns when the consumer is gone; none of them leaves the loop after
\* the Error.
WSend ==
    /\ wpc = "send"
    /\ LET batch == Unwrap(last_request)
       IN \E ok \in BOOLEAN :
            /\ wsent' = <<[ids |-> BatchIds(batch), ok |-> ok]>>
            /\ wgot' = None
            /\ IF ok
               THEN \* after any number of failed turns
                    /\ owed' = Receives(owed, BatchIds(batch))
                    /\ wpc' = "respond"
                    /\ retry' = 0
                    /\ UNCHANGED send
               ELSE \* the turns fail until retry > 10, or one more turn
                    \* fails after that
                    /\ retry <= RetryLimit + MaxResps
                    /\ retry' = IF retry <= RetryLimit THEN RetryLimit + 1
                                 ELSE retry + 1
                    /\ UNCHANGED owed
                    /\ IF send.alive
                       THEN /\ send' = Emit(send, <<"Error">>)
                            /\ wpc' = "send"
                       ELSE /\ UNCHANGED send
                            /\ wpc' = IF batch[1].method = "tx_get"
                                      THEN "returned"
                                      ELSE "panicked"
    /\ UNCHANGED <<last_request, last_id, index, reqid_spk_map,
                   watched_spks_sh, sh_sbf_map, recv>>

\* the responses of one received batch r are handled: bindings looked up,
\* server errors passed on, then History, Status and Txs emitted
Handle(r) ==
    LET hist == {x \in r : x.kind = "SHGetHistory"}
        stat == {x \in r : x.kind \in {"SHSubscribe", "SHNotification"}}
        txs == {x \in r : x.kind = "TxGet"}
        errs == {x \in r : x.kind = "Error"}
        unbound == \E x \in hist :
                      ~\E b \in reqid_spk_map : Some(b.id) = x.id
        out == Repeat("Error", Card(errs))
               \o (IF hist # {} THEN <<"History">> ELSE <<>>)
               \o (IF stat # {} THEN <<"Status">> ELSE <<>>)
               \o (IF txs # {} THEN <<"Txs">> ELSE <<>>)
    IN /\ reqid_spk_map' = {b \in reqid_spk_map :
                               ~\E x \in hist : x.id = Some(b.id)}
       /\ IF send.alive
          THEN /\ send' = Emit(send, out)
               /\ wpc' = IF unbound THEN "panicked" ELSE "intake"
          ELSE /\ UNCHANGED send
               /\ \/ errs # {} /\ wpc' = "returned"
                  \/ unbound /\ wpc' = "panicked"
                  \/ errs = {} /\ ~unbound
                     /\ wpc' = IF hist \cup stat \cup txs # {}
                               THEN "panicked" ELSE "intake"

\* the second half of one loop iteration: self.inner.try_recv(&self.index)
\* and what follows from it
WRespond ==
    /\ wpc = "respond"
    /\ \/ \* Ok(None)
          /\ wpc' = "intake"
          /\ wsent' = <<>> /\ wgot' = None
          /\ UNCHANGED <<last_request, reqid_spk_map, send, owed>>
       \/ \* Err(e)
          /\ Len(send.out) < MaxResps
          /\ wsent' = <<>> /\ wgot' = None
          /\ IF send.alive
             THEN send' = Emit(send, <<"Error">>) /\ wpc' = "intake"
             ELSE UNCHANGED send /\ wpc' = "returned"
          /\ UNCHANGED <<last_request, reqid_spk_map, owed>>
       \/ \* Ok(Some(r))
          /\ Len(send.out) < MaxResps
          /\ \E I \in SUBSET OwedIds, N \in SUBSET sh_sbf_map :
             \E E \in SUBSET I, ok \in BOOLEAN :
               LET r == {ResponseTo(CHOOSE rq \in index : rq.id = i, i \in E)
                            : i \in I}
                        \cup {Notification(sh) : sh \in N}
                   r_match == /\ IsSome(last_request)
                              /\ responses_matches_requests(
                                     Unwrap(last_request), r)
                   resend == ~r_match /\ IsSome(last_request)
                   ids == IF resend THEN BatchIds(Unwrap(last_request)) ELSE {}
               IN /\ resend => \A i \in ids : Answers(owed, I)[i] < MaxOwed
                  /\ ~resend => ok
                  /\ wgot' = Some(I)
                  /\ last_request' = IF r_match THEN None ELSE last_request
                  /\ wsent' = IF resend
                              THEN <<[ids |-> ids, ok |-> ok]>>
                              ELSE <<>>
                  /\ owed' = IF ok THEN Receives(Answers(owed, I), ids)
                             ELSE Answers(owed, I)
                  /\ IF ok
                     THEN Handle(r)
                     ELSE /\ wpc' = "panicked"
                          /\ UNCHANGED <<reqid_spk_map, send>>
    /\ UNCHANGED <<last_id, index, watched_spks_sh, sh_sbf_map, retry, recv>>

WorkerInit ==
    /\ EngineIdle
    /\ AsmIdle
    /\ CodecIdle
    /\ WorkerIdle
    /\ LockIdle
    /\ ListPoolsIdle
    /\ BuilderIdle
    /\ BackoffIdle
    /\ SignerIdle

WorkerNext ==
    \/ ConsumerRequest /\ UNCHANGED notWorker
    \/ ConsumerClose /\ UNCHANGED notWorker
    \/ ConsumerDrop /\ UNCHANGED notWorker
    \/ WIntake /\ UNCHANGED notWorker
    \/ WSend /\ UNCHANGED notWorker
    \/ WRespond /\ UNCHANGED notWorker

SpecWorker == WorkerInit /\ [][WorkerNext]_vars

\* the worker thread keeps running: its loop is never suspended for good.
\* Nothing is assumed of the consumer or of the server.
WorkerStep == (WIntake \/ WSend \/ WRespond) /\ UNCHANGED notWorker

SpecWorkerLive ==
    /\ WorkerInit
    /\ [][WorkerNext]_vars
    /\ WF_vars(WorkerStep)

\* ------------------------------------------------------------------------
\* The synchronous calls of electrum::Client: get_tx, get_coins_tx_at,
\* broadcast. Each takes &mut self, so one call runs at a time.

SyncCalls == {"get_tx", "get_coins_tx_at", "broadcast"}

\* the request a call builds
sync_method(name) ==
    CASE name = "get_tx" -> "tx_get"
      [] name = "get_coins_tx_at" -> "sh_get_history"
      [] OTHER -> "tx_broadcast"

\* the id a Request carries when the client sets none (broadcast builds its
\* request without `.id(self.id())`): whatever the request was built with
BuiltIds == 0..MaxId

\* self.index.remove(&req_id) doing nothing
index_remove_noop(idx, id) == idx

\* self.index.remove(&req_id)
index_remove(idx, id) == {rq \in idx : rq.id # id}

\* self.index.insert(request.id, request)
index_insert(idx, rq) == index_remove(idx, rq.id) \cup {rq}

\* the batches of responses recv can hand to a call with request id `id`:
\* the answer of the expected type (for get_tx with a raw transaction that
\* decodes, that is not hex, or that is no transaction), the server's error
\* for the request, an answer to another id, nothing
SyncResponse(kind, id, raw) == [kind |-> kind, id |-> id, raw |-> raw]
SyncBatches(name, id) ==
    LET kind == CASE name = "get_tx" -> "TxGet"
                  [] name = "get_coins_tx_at" -> "SHGetHistory"
                  [] OTHER -> "TxBroadcast"
    IN {{SyncResponse(kind, id, raw)} : raw \in {"tx", "nothex", "notx"}}
       \cup {{SyncResponse("Error", id, "")},
             {SyncResponse(kind, id + 1, "tx")},
             {SyncResponse("Error", id + 1, ""), SyncResponse(kind, id, "tx")},
             {}}

\* what the loop over the responses returns: the first response that is
\* the answer to the request decides; the error of the server decides for
\* get_tx only
sync_result(name, id, resp) ==
    LET kind == CASE name = "get_tx" -> "TxGet"
                  [] name = "get_coins_tx_at" -> "SHGetHistory"
                  [] OTHER -> "TxBroadcast"
        answers == {r \in resp : r.kind = kind /\ r.id = id}
        errors == {r \in resp : r.kind = "Error" /\ r.id = id}
    IN IF answers # {}
       THEN IF name = "get_tx" /\ (CHOOSE r \in answers : TRUE).raw # "tx"
            THEN "TxParsing" ELSE "Ok"
       ELSE IF name = "get_tx" /\ errors # {} THEN "TxDoesNotExists"
       ELSE "WrongResponse"

\* a call up to recv: the request gets its id, try_send hands it to the
\* server, and the request joins the index; a failed try_send returns
SyncSend ==
    /\ call = None
    /\ Len(wire) < MaxId
    /\ \E name \in SyncCalls, built \in BuiltIds, ok \in BOOLEAN :
         LET id == IF name = "broadcast" THEN built ELSE last_id + 1
         IN /\ name # "broadcast" => /\ last_id < MaxId
                                     /\ built = 0
            /\ last_id' = IF name = "broadcast" THEN last_id ELSE last_id + 1
            /\ IF ok
               THEN /\ wire' = Append(wire, id)
                    /\ index' = index_insert(index,
                                    Request(id, sync_method(name), name))
                    /\ call' = Some([name |-> name, id |-> id])
                    /\ UNCHANGED ret
               ELSE /\ ret' = [name |-> name, id |-> id, result |-> "Electrum"]
                    /\ UNCHANGED <<wire, index, call>>

\* recv returns and the call runs to its return
SyncRecv ==
    /\ IsSome(call)
    /\ LET c == Unwrap(call)
       IN \/ \* Err(e)
             /\ index' = index_remove(index, c.id)
             /\ ret' = [name |-> c.name, id |-> c.id, result |-> "Electrum"]
          \/ \E resp \in SyncBatches(c.name, c.id) :
               /\ index' = index_remove(index, c.id)
               /\ ret' = [name |-> c.name, id |-> c.id,
                          result |-> sync_result(c.name, c.id, resp)]
    /\ call' = None
    /\ UNCHANGED <<wire, last_id>>

ClientInit == WorkerInit

ClientNext ==
    \/ SyncSend /\ UNCHANGED notClient
    \/ SyncRecv /\ UNCHANGED notClient

SpecClient == ClientInit /\ [][ClientNext]_vars

\* ------------------------------------------------------------------------
\* The relay client: nostr::sync::NostrClient over the WsClient it builds

RelayUrls == {"wss://r1"}
RelayKeys == {kSelf}

\* messages the engine hands to send_pool_message
RelayMessages == {Join(NoKey), Output("a1")}

\* the operations that go through NostrClient::client()
SendOps == {"post_event", "send_dm", "send_pool_message", "subscribe_dm",
            "subscribe_pools"}
ReceiveOps == {"receive_event", "try_receive_pool_msg",
               "receive_pool_notification"}

NRet(op, res, ev, msg) ==
    [op |-> op, connected |-> IsSome(nostr.client), result |-> res,
     ev |-> ev, msg |-> msg]

\* NostrClient::client() taking whatever is there for a connection
client_unchecked(n) == "Ok"

\* NostrClient::client(): the WsClient, or NotConnected
client(n) == IF IsSome(n.client) THEN "Ok" ELSE "NotConnected"

\* what a sending operation hands to the WsClient
relay_item(op, msg) ==
    IF op = "send_pool_message"
    THEN [op |-> "send_dm", content |-> Some(to_json(msg))]
    ELSE [op |-> op, content |-> None]

\* the subscription connect_nostr makes
SubscribeDm == [op |-> "subscribe_dm", content |-> None]

\* NostrClient::relay / NostrClient::keys: set on the builder, or
\* AlreadyConnected; they take the client by value and give it back on Ok only
BuilderSet(op, v) ==
    /\ nostr.alive
    /\ IF IsSome(nostr.builder)
       THEN /\ nostr' = [nostr EXCEPT !.builder =
                  Some(IF op = "relay"
                       THEN [Unwrap(nostr.builder) EXCEPT !.relay = Some(v)]
                       ELSE [Unwrap(nostr.builder) EXCEPT !.keys = Some(v)])]
            /\ nret' = NRet(op, "Ok", None, None)
       ELSE /\ nostr' = [nostr EXCEPT !.alive = FALSE]
            /\ nret' = NRet(op, "AlreadyConnected", None, None)
    /\ UNCHANGED relayed

relay == \E url \in RelayUrls : BuilderSet("relay", url)

keys == \E k \in RelayKeys : BuilderSet("keys", k)

\* NostrClient::connect_nostr: the builder is taken; the connection or the DM
\* subscription may fail, and then the client is left with neither
connect_nostr ==
    /\ nostr.alive
    /\ IF IsSome(nostr.builder)
       THEN \E outcome \in {"Ok", "connect failed", "subscribe failed"} :
              /\ outcome = "Ok" => Len(relayed) <= MaxQueue
              /\ nostr' = [nostr EXCEPT
                     !.builder = None,
                     !.client = IF outcome = "Ok" THEN nostr.builder ELSE None]
              /\ relayed' = IF outcome = "Ok"
                            THEN Append(relayed, SubscribeDm)
                            ELSE relayed
              /\ nret' = NRet("connect_nostr",
                              IF outcome = "Ok" THEN "Ok" ELSE "NostrClient",
                              None, None)
       ELSE /\ nret' = NRet("connect_nostr", "SyncClientBuilderMissing",
                            None, None)
            /\ UNCHANGED <<nostr, relayed>>

\* post_event, send_dm, send_pool_message, subscribe_dm, subscribe_pools
RelaySend(op, msg) ==
    /\ nostr.alive
    /\ IF client(nostr) # "Ok"
       THEN nret' = NRet(op, client(nostr), None, None) /\ UNCHANGED relayed
       ELSE \E delivered \in BOOLEAN :
              /\ Len(relayed) <= MaxQueue
              /\ relayed' = IF delivered
                            THEN Append(relayed, relay_item(op, msg))
                            ELSE relayed
              /\ nret' = NRet(op, IF delivered THEN "Ok" ELSE "NostrClient",
                              None, None)
    /\ UNCHANGED nostr

\* receive_event, try_receive_pool_msg, receive_pool_notification
RelayReceive(op) ==
    /\ nostr.alive
    /\ IF client(nostr) # "Ok"
       THEN nret' = NRet(op, client(nostr), None, None)
       ELSE \E r \in try_receive :
              LET ev == IF r.status = "Event" THEN Some(r.ev) ELSE None
              IN nret' = NRet(op,
                              IF r.status = "Err" THEN "NostrClient" ELSE "Ok",
                              ev,
                              IF op = "try_receive_pool_msg"
                              THEN try_receive_pool_msg(r).msg ELSE None)
    /\ UNCHANGED <<nostr, relayed>>

RelayInit == WorkerInit

RelayNext ==
    \/ relay /\ UNCHANGED notRelay
    \/ keys /\ UNCHANGED notRelay
    \/ connect_nostr /\ UNCHANGED notRelay
    \/ \E op \in SendOps, m \in RelayMessages :
         RelaySend(op, m) /\ UNCHANGED notRelay
    \/ \E op \in ReceiveOps : RelayReceive(op) /\ UNCHANGED notRelay

SpecRelay == RelayInit /\ [][RelayNext]_vars

\* ------------------------------------------------------------------------
\* backoff::Backoff. The integers keep their width: a u32 is two and a u64
\* four digits in base 2^16, least significant first; the microseconds of a
\* Duration (u128) are five.

Base16 == 65536

\* snooze calls of one behavior
MaxSnoozes == 22

U32(n) == <<n % Base16, n \div Base16>>
U64(n) == <<n % Base16, n \div Base16, 0, 0>>
U32Max == <<Base16 - 1, Base16 - 1>>

\* the argument of new_us / new_ms: WAIT and the worker's 50, values around
\* the sleeps of snooze, and 18446744073709552, the first count of
\* milliseconds that is more than 2^64 microseconds
SleepArgs ==
    {U64(0), U64(7), U64(50), U64(640), U64(20000),
     <<42992, 19398, 35127, 65>>}

\* Duration::from_micros(v).as_micros()
from_micros(v) == v \o <<0>>

\* Duration::from_millis(v).as_micros(): v * 1000, digit by digit
from_millis(v) ==
    LET t1 == v[1] * 1000
        t2 == v[2] * 1000 + (t1 \div Base16)
        t3 == v[3] * 1000 + (t2 \div Base16)
        t4 == v[4] * 1000 + (t3 \div Base16)
    IN <<t1 % Base16, t2 % Base16, t3 % Base16, t4 % Base16, t4 \div Base16>>

\* `as u64` on a u128: the low 64 bits
as_u64(m) == SubSeq(m, 1, 4)

\* x.min(m) for a u64 x below 2^16 and a u64 m
min_u64(x, m) ==
    IF m[2] = 0 /\ m[3] = 0 /\ m[4] = 0 /\ m[1] < x THEN m[1] ELSE x

\* current_step < 10
yields(step) == step[2] = 0 /\ step[1] < 10

\* (current_step - 10).min(10), for a step of 10 or more
shift(step) == IF step[2] > 0 \/ step[1] >= 20 THEN 10 ELSE step[1] - 10

\* base * 10 with base = 1u64 << shift
sleep_micros(step) == (2 ^ shift(step)) * 10

\* rng().random_range(0..half): the ends of the range and two values inside
Jitters(half) == {0, 1, half \div 2, half - 1}

\* current_step.wrapping_add(1)
wrapping_add(step) ==
    IF step[1] < Base16 - 1 THEN <<step[1] + 1, step[2]>>
    ELSE <<0, (step[2] + 1) % Base16>>

\* current_step.saturating_add(1)
saturating_add(step) ==
    IF step[1] < Base16 - 1 THEN <<step[1] + 1, step[2]>>
    ELSE IF step[2] < Base16 - 1 THEN <<0, step[2] + 1>>
    ELSE step

BRet(op, slept, jitter, n) ==
    [op |-> op, before |-> backoff.current_step, slept |-> slept,
     jitter |-> jitter, n |-> n]

\* Backoff::reset
reset ==
    /\ backoff' = [backoff EXCEPT !.current_step = U32(0)]
    /\ bret' = BRet("reset", None, 0, bret.n)

\* Backoff::snooze
snooze ==
    /\ bret.n < MaxSnoozes
    /\ IF yields(backoff.current_step)
       THEN bret' = BRet("snooze", None, 0, bret.n + 1)
       ELSE LET micros == sleep_micros(backoff.current_step)
            IN \E jitter \in Jitters(micros \div 2) :
                 bret' = BRet("snooze",
                              Some(min_u64(micros + jitter,
                                           as_u64(backoff.max_sleep))),
                              jitter, bret.n + 1)
    /\ backoff' = [backoff EXCEPT
                     !.current_step = saturating_add(backoff.current_step)]

\* a Backoff of new_us or new_ms, new or after the snoozes that bring its
\* step to the carry of the low digit or to the end of the u32 range
StartSteps == {U32(0), <<Base16 - 2, 0>>, <<Base16 - 3, Base16 - 1>>}

BackoffInit ==
    /\ EngineIdle
    /\ AsmIdle
    /\ CodecIdle
    /\ WorkerIdle
    /\ LockIdle
    /\ ListPoolsIdle
    /\ BuilderIdle
    /\ SignerIdle
    /\ \E step \in StartSteps, v \in SleepArgs, unit \in {"us", "ms"} :
         backoff = [current_step |-> step,
                    max_sleep |-> IF unit = "us" THEN from_micros(v)
                                  ELSE from_millis(v)]
    /\ bret = [op |-> "new", before |-> backoff.current_step, slept |-> None,
               jitter |-> 0, n |-> 0]

BackoffNext ==
    \/ snooze /\ UNCHANGED notBackoff
    \/ reset /\ UNCHANGED notBackoff

SpecBackoff == BackoffInit /\ [][BackoffNext]_vars

\* ------------------------------------------------------------------------
\* The signer: WpkhHotSigner::sign on a transaction and a coin

\* CoinPath; the index is a u32 in two base-2^16 digits
CoinPath(depth, idx) == [depth |-> depth, index |-> idx]

\* the first index above MAX_DERIV (2^31), which no unhardened derivation takes
HardenedIndex == <<0, Base16 \div 2>>
hardened(idx) == idx[2] >= Base16 \div 2

CoinPaths ==
    {CoinPath(d, i) :
        d \in {0, 1}, i \in {None, Some(U32(11)), Some(HardenedIndex)}}

\* the P2WPKH script of the key at m/depth/index
Wpkh(depth, idx) == [kind |-> "wpkh", depth |-> depth, index |-> idx]
ForeignScript == [kind |-> "other", depth |-> 0, index |-> U32(0)]
CoinScripts == {Wpkh(0, U32(11)), Wpkh(1, U32(11)), ForeignScript}

TxIn(outpoint, sequence, witness) ==
    [previous_output |-> outpoint, sequence |-> sequence,
     witness |-> witness]

\* Witness::default()
EmptyWitness == <<>>

\* a witness somebody else made
OtherWitness == <<"signature", "pubkey">>

\* the transactions sign is handed: outputs only, or with inputs already
\* there, signed or not
SignerTxs ==
    {[input |-> ins, output |-> <<"a1", "a2">>] :
        ins \in {<<>>,
                 <<TxIn("o3", "MAX", EmptyWitness)>>,
                 <<TxIn("o3", "MAX", OtherWitness)>>,
                 <<TxIn("o3", "MAX", EmptyWitness),
                   TxIn("o4", "MAX", OtherWitness)>>}}

Coins ==
    {[txout |-> [value |-> v, script_pubkey |-> spk], outpoint |-> o,
      sequence |-> q, coin_path |-> cp] :
        v \in {AmtOk, AmtLow}, spk \in CoinScripts, o \in {"o1"},
        q \in {"MAX", "RBF"}, cp \in CoinPaths}

SignErr(e) == [status |-> "Err", err |-> e, txin |-> None, amount |-> None]
SignPanic == [status |-> "panicked", err |-> "", txin |-> None,
              amount |-> None]
SignOk(txin, amount) ==
    [status |-> "Ok", err |-> "", txin |-> Some(txin), amount |-> amount]

\* Psbt::from_unsigned_tx: refuses a transaction with an input that carries
\* a witness (or a script_sig); else one empty psbt input per input
from_unsigned_tx(utx) ==
    IF \E i \in 1..Len(utx.input) : utx.input[i].witness # EmptyWitness
    THEN None
    ELSE Some([base |-> utx,
               inputs |-> [i \in 1..Len(utx.input) |-> "default"]])

\* WpkhHotSigner::address_at / spk_at: CoinPathWithoutIndex without index;
\* at_derivation_index(..).expect("wildcard") panics on a hardened index
spk_at(coin_path) ==
    IF coin_path.index = None
    THEN [status |-> "Err", spk |-> ForeignScript]
    ELSE IF hardened(Unwrap(coin_path.index))
    THEN [status |-> "panicked", spk |-> ForeignScript]
    ELSE [status |-> "Ok",
          spk |-> Wpkh(coin_path.depth, Unwrap(coin_path.index))]

\* PsbtSighashType::from_u32(0x81)
AllPlusAnyoneCanPay == "ALL|ANYONECANPAY"

\* the message sighash_ecdsa gives for input 0 under ALL|ANYONECANPAY: the
\* outputs and this input, no other input
sighash_ecdsa(with_txin, utxo, sighash_type) ==
    [outputs |-> with_txin.output, txin |-> with_txin.input[1],
     utxo |-> utxo, sighash_type |-> sighash_type]

\* Witness::p2wpkh of the low-R signature by the key at m/depth/index
p2wpkh_witness(msg, coin_path, sighash_type) ==
    <<[msg |-> msg, key |-> coin_path, sighash_type |-> sighash_type],
      [pubkey |-> coin_path]>>

\* WpkhHotSigner::sign
sign(utx, input_data) ==
    LET psbt == from_unsigned_tx(utx)
        script == spk_at(input_data.coin_path)
        txin == TxIn(input_data.outpoint, input_data.sequence, EmptyWitness)
        with_txin == [utx EXCEPT !.input = Append(utx.input, txin)]
        msg == sighash_ecdsa(with_txin, input_data.txout,
                             AllPlusAnyoneCanPay)
    IN IF psbt = None THEN SignErr("InvalidTransaction")
       ELSE IF Unwrap(psbt).inputs # <<>>
       THEN SignErr("TxAlreadyHasInput")
       ELSE IF script.status = "panicked" THEN SignPanic
       ELSE IF script.status = "Err" THEN SignErr("CoinPath")
       ELSE IF input_data.txout.script_pubkey # script.spk
       THEN SignErr("CoinPath")
       ELSE SignOk([txin EXCEPT !.witness =
                       p2wpkh_witness(msg, input_data.coin_path,
                                      AllPlusAnyoneCanPay)],
                   Some(input_data.txout.value))

SignerInit ==
    /\ EngineIdle
    /\ AsmIdle
    /\ CodecIdle
    /\ WorkerIdle
    /\ LockIdle
    /\ ListPoolsIdle
    /\ BuilderIdle
    /\ BackoffIdle
    /\ \E utx \in SignerTxs, coin \in Coins :
         sgn = [tx |-> Some(utx), coin |-> Some(coin), res |-> None]

\* one call of sign; the transaction is borrowed and stays as it was
Sign ==
    /\ IsSome(sgn.tx) /\ sgn.res = None
    /\ sgn' = [sgn EXCEPT !.res = Some(sign(Unwrap(sgn.tx), Unwrap(sgn.coin)))]

SignerNext == Sign /\ UNCHANGED notSigner

SpecSigner == SignerInit /\ [][SignerNext]_vars

\* ------------------------------------------------------------------------
\* Properties

InLog(ph) == \E i \in 1..Len(log) : log[i] = ph

Rank(ph) ==
    CASE ph \in {"post", "join"} -> 1
      [] ph = "peer_reg" -> 2
      [] ph = "output_reg" -> 3
      [] ph = "register_outputs_ok" -> 4
      [] ph = "template" -> 5
      [] ph = "input_dm" -> 6
      [] ph = "input_reg" -> 7
      [] ph = "register_inputs_ok" -> 8
      [] OTHER -> 9

InputDmSent == \E i \in 1..Len(sent) : sent[i].msg.type = "input"

IsError(r) == IsSome(r) /\ Unwrap(r).name # "Ok"

Finalized == IsSome(coinjoin) /\ IsSome(tx(Unwrap(coinjoin)))

\* C1: the phases of start_coinjoin run in the order announce/join, peer
\* registration, output registration, template, local signing, input
\* registration, broadcast; the template is generated only after
\* register_outputs returned Ok, the local Input DM is sent only when the
\* template exists, a transaction is handed to the chain only when the
\* assembler holds it as its finalized transaction, and once a phase has
\* returned an error start_coinjoin has stopped.
C1_PhaseOrder ==
    /\ \A i, j \in 1..Len(log) : i < j => Rank(log[i]) < Rank(log[j])
    /\ InLog("peer_reg") => InLog("post") \/ InLog("join")
    /\ InLog("output_reg") => InLog("peer_reg")
    /\ InLog("register_outputs_ok") => InLog("output_reg")
    /\ InLog("template") =>
          InLog("register_outputs_ok") /\ ro_result = Some(R("Ok"))
    /\ InputDmSent =>
          InLog("template") /\ IsSome(coinjoin)
          /\ IsSome(unsigned_tx(Unwrap(coinjoin)))
    /\ InLog("input_reg") => InLog("template")
    /\ InLog("register_inputs_ok") => InLog("input_reg")
    /\ (InLog("broadcast") \/ broadcasts # <<>>) =>
          /\ InLog("register_inputs_ok")
          /\ Finalized
          /\ \A i \in 1..Len(broadcasts) :
                 broadcasts[i] = Unwrap(tx(Unwrap(coinjoin)))
    /\ IsError(result) => pc = "failed"

C1_Witness ==
    /\ pc = "done"
    /\ InputDmSent
    /\ Len(broadcasts) = 1
    /\ Len(log) = 9

NoDuplicateOutpoint(c) ==
    \A i, j \in 1..Len(c.inputs) :
        i # j => c.inputs[i].outpoint # c.inputs[j].outpoint

HasOutpoint(c, o) == \E i \in 1..Len(c.inputs) : c.inputs[i].outpoint = o

HasAddress(c, a) == \E i \in 1..Len(c.outputs) : c.outputs[i].address = a

C5_DenominationAndFee ==
    /\ Finalized =>
         LET c == Unwrap(coinjoin)
             t == Unwrap(tx(c))
             total_in == SumSeq([i \in 1..Len(t.input) |-> t.input[i].amount])
         IN /\ \A i \in 1..Len(t.output) : t.output[i].value = c.denomination
            /\ TotalOut(t.output) = Len(t.output) * c.denomination
            /\ total_in - TotalOut(t.output)
                   >= c.min_fee * VSize(Len(t.input), Len(t.output))
    /\ IsSome(gentx) => Unwrap(gentx).inputs >= Unwrap(gentx).outputs

\* finalized with three inputs, after generate_tx(false) refused two
C5_Witness ==
    /\ Finalized
    /\ Len(Unwrap(tx(Unwrap(coinjoin))).input) = 3
    /\ Len(Unwrap(tx(Unwrap(coinjoin))).output) = 2
    /\ gentx = Some([inputs |-> 3, outputs |-> 2])

MissingOutput ==
    /\ IsSome(ro_result)
    /\ Cardinality(peers) >= payload_as_ref.peers
    /\ outputs_len(cj) < Cardinality(peers)

C8_Original ==
    electrum =>
        /\ \A i \in 1..Len(cj.outputs) :
               cj.outputs[i].address \notin UsedAddresses
        /\ \A k \in 1..Len(broadcasts) : \A i \in 1..Len(broadcasts[k].output) :
               broadcasts[k].output[i].address \notin UsedAddresses

\* C9 as stated: once add_input has refused an input with InputAmountTooLow
\* the round is aborted: start_coinjoin has returned an error and no
\* transaction is finalized or broadcast.
C9_Original ==
    "InputAmountTooLow" \in rejected =>
        /\ pc = "failed"
        /\ ~Finalized
        /\ broadcasts = <<>>

PeerRegEnded ==
    pc \in {"rand_delay_1", "out_reg", "ro_check", "generate_unsigned_tx",
            "rand_delay_2", "register_inputs", "in_reg", "ri_check",
            "broadcast_tx", "done", "failed", "panicked"}

CredentialsTo ==
    {sent[i].to : i \in {k \in 1..Len(sent) : sent[k].msg.type = "credentials"}}

\* C10: once peer registration has ended, nothing the participant receives
\* adds a peer to the peer set or makes it send Credentials.
C10_LateJoinIgnored ==
    [][PeerRegEnded => (peers' = peers /\ CredentialsTo' = CredentialsTo)]_vars

\* a Join of an unregistered key came late and the round still finalized
C10_Witness ==
    /\ lateJoin
    /\ initiator
    /\ pc = "done"
    /\ IsSome(final_tx)
    /\ Cardinality(peers) = 2
    /\ CredentialsTo = peers

CredentialsSent == {i \in 1..Len(sent) : sent[i].msg.type = "credentials"}

\* C11: only the initiator sends Credentials, and only during peer
\* registration; no pubkey is sent Credentials twice (a Join of a key already
\* registered gets no reply); every Credentials message carries the id of
\* the pool and the secret key of the initiator's relay client.
C11_CredentialsOncePerJoiner ==
    /\ \A i \in CredentialsSent :
           /\ initiator
           /\ sent[i].msg.id = Unwrap(pool).id
           /\ sent[i].msg.key = clientKey
    /\ \A i, j \in CredentialsSent : i # j => sent[i].to # sent[j].to
    /\ \A i, j \in CredentialsSent : sent[i].msg.key = sent[j].msg.key
    /\ rx = "known_join" => pc = "peer_reg"
    /\ (initiator /\ pc = "peer_reg") => CredentialsTo = peers

\* a Join of an already registered key was met and got no second reply
C11_Witness ==
    /\ rx = "known_join"
    /\ initiator
    /\ Cardinality(CredentialsSent) = 1
    /\ Cardinality(peers) = 1

\* the wait for credentials ends with the client replaced
JoinConnected ==
    /\ pc' = "register_outputs"
    /\ now < expired
    /\ clientKey' = kPool
    /\ clientKey' # clientKey
    /\ result' = result

\* the wait for credentials ends at the start deadline
JoinTimedOut ==
    /\ pc' = "failed"
    /\ now >= expired
    /\ result' = Some(R("PoolConnectionTimeout"))
    /\ clientKey' = clientKey

\* the wait for credentials ends on an error of the relay client
JoinRelayError ==
    /\ pc' = "failed"
    /\ now < expired
    /\ result' = Some(R("Nostr"))
    /\ clientKey' = clientKey

JoinWaiting ==
    /\ pc' = "wait_credentials"
    /\ clientKey' = clientKey
    /\ result' = result

\* C12 as stated: the wait for credentials is left only with the relay
\* client replaced by one keyed with the received key, or at the start
\* deadline with PoolConnectionTimeout; Credentials of another pool neither
\* replace the client nor end the wait.
C12_Original ==
    [][pc = "wait_credentials" =>
         /\ JoinWaiting \/ JoinConnected \/ JoinTimedOut
         /\ rx' = "other_credentials" => JoinWaiting]_vars

\* C12 amended: the wait for credentials is left only with the relay client
\* replaced by one keyed with the received key, or at the start deadline
\* with PoolConnectionTimeout, or on an error of the relay client with that
\* error and the client unchanged; Credentials of another pool neither
\* replace the client nor end the wait; a peer that left the wait
\* successfully only uses the received key.
C12_JoinWait ==
    /\ []((~initiator /\ InLog("peer_reg")) => clientKey = kPool)
    /\ [][pc = "wait_credentials" =>
            /\ JoinWaiting \/ JoinConnected \/ JoinTimedOut \/ JoinRelayError
            /\ rx' = "other_credentials" => JoinWaiting]_vars

C12_Witness ==
    /\ ~initiator
    /\ pc = "peer_reg"
    /\ clientKey = kPool
    /\ result = None

\* peer registration ends and output registration follows
PeerRegEnds == pc = "peer_reg" /\ pc' = "rand_delay_1"

EarlyStartAllowed == payload_as_ref.timeout.kind \in {"Simple", "Timeout"}

\* C13: peer registration runs against the start deadline of the timeline;
\* it ends before that deadline only when the timeline is Simple or Timeout
\* and the peer set has reached min_peers, with a Fixed timeline never
\* before start; once the clock has reached the start deadline the loop
\* takes no further message and ends.
C13_PeerRegEnd ==
    [][/\ pc = "peer_reg" => expired = payload_as_ref.timeout.t
       /\ (PeerRegEnds /\ now < expired) =>
              (EarlyStartAllowed
               /\ Cardinality(peers) >= payload_as_ref.peers)
       /\ (PeerRegEnds /\ payload_as_ref.timeout.kind = "Fixed") =>
              now >= expired
       /\ (pc = "peer_reg" /\ now >= expired /\ now' = now) =>
              (PeerRegEnds /\ peers' = peers /\ sent' = sent)]_vars

\* a Fixed timeline before start, with more peers than min_peers
C13_Witness ==
    /\ pc = "peer_reg"
    /\ payload_as_ref.timeout.kind = "Fixed"
    /\ now < expired
    /\ Cardinality(peers) > payload_as_ref.peers

\* the final deadline of the pool's timeline
FinalDeadline ==
    LET tl == payload_as_ref.timeout
    IN IF tl.kind = "Simple" THEN tl.t ELSE tl.t + tl.max_duration

\* C14 as stated: output registration and input registration run against the
\* same final deadline: t for Simple(t), start + max_duration for Fixed,
\* timeout + max_duration for Timeout.
C14_Original ==
    /\ pc \in {"out_reg", "ro_check"} => expired = FinalDeadline
    /\ pc \in {"in_reg", "ri_check"} => expired = FinalDeadline

\* broadcast_tx has run on a finalized assembler
BroadcastTxRan ==
    /\ pc \in {"done", "failed"}
    /\ InLog("register_inputs_ok")
    /\ Finalized

\* C15 as stated: once broadcast_tx has run on a finalized assembler the
\* final transaction is cached in final_tx, whether or not the broadcast
\* succeeded; without a chain backend nothing is broadcast and no error is
\* returned.
C15_Original ==
    BroadcastTxRan =>
        /\ final_tx = tx(Unwrap(coinjoin))
        /\ ~electrum => (broadcasts = <<>> /\ result = Some(R("Ok")))

\* a polling loop whose deadline the clock has reached
LoopAtDeadline ==
    /\ pc \in {"wait_credentials", "peer_reg", "out_reg", "in_reg"}
    /\ now >= expired

\* C16 as stated: a polling loop that finds the clock at or past its deadline
\* takes no further message and exits, and start_coinjoin eventually returns
\* success or an error.
C16_Original ==
    /\ [][(LoopAtDeadline /\ now' = now) =>
             (pc' # pc /\ peers' = peers /\ cj' = cj
              /\ coinjoin' = coinjoin /\ sent' = sent)]_vars
    /\ <>IsSome(result)

\* ---- C17
\* a message went through to_json and then from_str
RoundTripDone == IsSome(codec.msg) /\ IsSome(codec.parsed)

\* C17 as stated: for every pool message the codec can serialize (every
\* variant, Join with and without npub, Input with and without an amount),
\* parsing the serialized form succeeds and returns an equal message.
C17_Original ==
    RoundTripDone => Unwrap(codec.parsed) = ParseOk(Unwrap(codec.msg))

\* ---- C18
\* the parse errors of a payload that is not JSON, has no version, has a
\* version other than "1", or has an unknown type
MalformedErrors ==
    {"SerdeJson", "VersionMissing", "VersionNotSupported", "UnknownType"}

\* the four payloads, as events on the relay client
MalformedEvents ==
    {[status |-> "Event", ev |-> Event(k, c)] :
        k \in PubKeys, c \in MalformedPayloads}

InFlightIds == IF IsSome(last_request) THEN BatchIds(Unwrap(last_request)) ELSE {}

\* ids registered so far
IndexIds == {rq.id : rq \in index}

Covered == InFlightIds \subseteq Unwrap(wgot')

\* C20: in a step that receives a batch of responses while a batch is in
\* flight, the marker is cleared if and only if the responses cover every
\* in-flight id; if they do not, the marker stays and the in-flight batch,
\* same ids, is handed to the server exactly once more; if they do,
\* nothing is sent. With nothing in flight, received responses send
\* nothing and set no marker. The marker is cleared by no other step.
C20_MarkerAndResend ==
    [][/\ (IsSome(wgot') /\ IsSome(last_request)) =>
            /\ (last_request' = None) <=> Covered
            /\ ~Covered => /\ last_request' = last_request
                           /\ Len(wsent') = 1
                           /\ wsent'[1].ids = InFlightIds
            /\ Covered => wsent' = <<>>
       /\ (IsSome(wgot') /\ last_request = None) =>
            /\ wsent' = <<>>
            /\ last_request' = None
       /\ (IsSome(last_request) /\ last_request' = None) => IsSome(wgot')]_vars

\* a reply answered one of two in-flight ids: the marker is still set and
\* the batch went to the server again
C20_Witness ==
    /\ IsSome(wgot) /\ IsSome(last_request)
    /\ Unwrap(wgot) # {}
    /\ ~(InFlightIds \subseteq Unwrap(wgot))
    /\ wsent = <<[ids |-> InFlightIds, ok |-> TRUE]>>
    /\ wpc = "intake"

\* ---- C21
\* C21 as stated: when sending a batch keeps failing, the worker retries at
\* most 10 times, emits exactly one Error for the batch and resumes its
\* main loop: once retry has passed 10 the worker is out of the send loop,
\* and no send loop counts a failed turn after the one that emitted the
\* Error.
C21_Original ==
    /\ wpc = "send" => retry <= RetryLimit
    /\ retry <= RetryLimit + 1

\* ---- C22
\* a step in which the worker tries to emit a response: the Stopped of a
\* Stop, the Error of a send loop, or what follows a batch of server
\* responses that answers some request and whose History answers all have
\* their binding
EmitAttempt ==
    \/ /\ wpc = "intake" /\ may_take_request(last_request)
       /\ recv.queue # <<>> /\ Head(recv.queue).kind = "Stop"
       /\ recv'.queue = Tail(recv.queue)
    \/ /\ wpc = "send" /\ wsent' # <<>> /\ ~wsent'[1].ok
    \/ /\ wpc = "respond" /\ IsSome(wgot') /\ Unwrap(wgot') # {}
       /\ (wsent' = <<>> \/ wsent'[1].ok)
       /\ \A rq \in index :
            (rq.id \in Unwrap(wgot') /\ rq.method = "sh_get_history")
                => \E b \in reqid_spk_map : b.id = rq.id

\* C22 as stated: with the consumer's receiver dropped, every attempt of
\* the worker to emit a response makes it terminate without panicking.
C22_Original ==
    [][(EmitAttempt /\ ~send.alive) => wpc' = "returned"]_vars

\* ---- C23
\* a Stop is waiting in the request channel
StopSent == \E i \in 1..Len(recv.queue) : recv.queue[i].kind = "Stop"

\* C23 as stated: after the consumer sends Stop the worker eventually
\* terminates (unless the consumer drops its receiver first), whatever the
\* server does and whether or not a batch is in flight; a Stopped is the
\* last thing the worker emits; and after the consumer closes the request
\* channel the worker eventually terminates, the step that finds the
\* channel closed emitting nothing.
C23_Original ==
    /\ StopSent ~> (wpc = "returned" \/ ~send.alive)
    /\ [](\A i \in 1..Len(send.out) :
            send.out[i] = "Stopped" => (i = Len(send.out) /\ wpc = "returned"))
    /\ ~recv.open ~> (wpc = "returned" \/ ~send.alive)
    /\ [][(wpc = "intake" /\ recv.queue = <<>> /\ wpc' = "returned")
            => send' = send]_vars

\* ---- C24
\* C24: when get_tx, get_coins_tx_at or broadcast returns, with Ok or with
\* any error, the index holds no entry for the request id of the call, and
\* the return has touched no entry of another id; while the call waits in
\* recv its request is in the index; a call whose send fails leaves the
\* index as it was.
C24_IndexCleared ==
    /\ [](call = None => ~\E rq \in index : rq.id = ret.id)
    /\ [](IsSome(call) => \E rq \in index : rq.id = Unwrap(call).id)
    /\ [][(IsSome(call) /\ call' = None) =>
            index' = {rq \in index : rq.id # Unwrap(call).id}]_vars
    /\ [][(call = None /\ call' = None) => index' = index]_vars

\* get_tx has sent its request, received a raw transaction that does not
\* decode and returned TxParsing
C24_Witness ==
    /\ call = None /\ ret.name = "get_tx" /\ ret.result = "TxParsing"
    /\ wire # <<>> /\ wire[Len(wire)] = ret.id
    /\ index = {}

\* ---- C25
\* C25 as stated: every request a client sends carries an id issued by the
\* client's counter, greater than every id it sent before.
C25_Original ==
    /\ \A i \in 1..Len(wire) : wire[i] \in 1..last_id
    /\ \A i, j \in 1..Len(wire) : i < j => wire[i] < wire[j]

\* C26: a relay client must be connected before use. Before a successful
\* connect, the sending and receiving operations return NotConnected and hand
\* nothing to the relay; after a successful connect, relay() and keys()
\* return AlreadyConnected and another connect fails and leaves the
\* established connection as it is.
C26_ConnectBeforeUse ==
    /\ []((nret.op \in SendOps \cup ReceiveOps /\ ~nret.connected)
            => nret.result = "NotConnected")
    /\ [][(nostr.client = None /\ nostr'.client = None)
            => relayed' = relayed]_vars
    /\ []((nret.op \in {"relay", "keys"} /\ nret.connected)
            => nret.result = "AlreadyConnected")
    /\ []((nret.op = "connect_nostr" /\ nret.connected)
            => nret.result = "SyncClientBuilderMissing")
    /\ [][IsSome(nostr.client) => nostr'.client = nostr.client]_vars

\* after a rejected send a client connected, sent a DM, and was asked to
\* connect again
C26_Witness ==
    /\ nret.op = "connect_nostr" /\ nret.connected
    /\ nostr.client = Some([relay |-> Some("wss://r1"), keys |-> Some(kSelf)])
    /\ relayed = <<SubscribeDm, relay_item("send_pool_message", Join(NoKey))>>

\* C27: try_receive_pool_msg never returns Join(None): a Join without npub
\* comes back as a Join of the sender of the event, a Join with an npub comes
\* back as it was parsed, and peer registration never takes its panic branch
\* for Join(None) nor registers a peer without a key.
C27_JoinHasKey ==
    /\ \A r \in try_receive :
         LET parsed == from_str(r.ev.content).msg
             m == try_receive_pool_msg(r).msg
         IN (r.status = "Event" /\ IsSome(parsed)
                /\ Unwrap(parsed).type = "join")
              => /\ IsSome(m) /\ Unwrap(m).type = "join"
                 /\ Unwrap(m).key # NoKey
                 /\ Unwrap(m).key = IF Unwrap(parsed).key = NoKey
                                    THEN r.ev.pubkey
                                    ELSE Unwrap(parsed).key
    /\ [][~(pc = "peer_reg" /\ pc' = "panicked")]_vars
    /\ [](NoKey \notin peers)

\* the sender of a Join without npub is registered as a peer
C27_Witness == pc = "peer_reg" /\ Sender(Join(NoKey)) \in peers

\* the microseconds x (below 2^16) are no more than the Duration m
LeqDuration(x, m) ==
    m[2] > 0 \/ m[3] > 0 \/ m[4] > 0 \/ m[5] > 0 \/ x <= m[1]

\* min(x, m) for microseconds x below 2^16 and a Duration m
MinDuration(x, m) == IF LeqDuration(x, m) THEN x ELSE m[1]

\* C28 (as stated): snooze does not sleep while step < 10; from step 10 on
\* it sleeps min(base + jitter, max_sleep) with base = 2^min(step - 10, 10)
\* x 10 microseconds and 0 <= jitter < base / 2; no snooze sleeps longer
\* than max_sleep nor than 15360 microseconds.
C28_Original ==
    bret.op = "snooze" =>
      IF yields(bret.before) THEN bret.slept = None
      ELSE LET base == (2 ^ shift(bret.before)) * 10
           IN /\ IsSome(bret.slept)
              /\ 0 <= bret.jitter /\ 2 * bret.jitter < base
              /\ Unwrap(bret.slept)
                   = MinDuration(base + bret.jitter, backoff.max_sleep)
              /\ LeqDuration(Unwrap(bret.slept), backoff.max_sleep)
              /\ Unwrap(bret.slept) <= 15360

\* the u32 b is the u32 a plus one
IsNext(a, b) ==
    \/ a[1] < Base16 - 1 /\ b = <<a[1] + 1, a[2]>>
    \/ a[1] = Base16 - 1 /\ a[2] < Base16 - 1 /\ b = <<0, a[2] + 1>>

SnoozeStep == bret'.op = "snooze" /\ bret'.n = bret.n + 1

\* C29: each snooze increases step by exactly 1 until step is the maximum
\* u32, where it stays; reset sets step to 0, and the snooze after a reset
\* yields without sleeping.
C29_StepSaturates ==
    /\ [][SnoozeStep =>
            IF backoff.current_step = U32Max
            THEN backoff'.current_step = U32Max
            ELSE IsNext(backoff.current_step, backoff'.current_step)]_vars
    /\ [](bret.op = "reset" => backoff.current_step = <<0, 0>>)
    /\ [][(bret.op = "reset" /\ SnoozeStep) => bret'.slept = None]_vars

\* a snooze at the maximum step: it slept and left the step where it was
C29_Witness ==
    /\ bret.op = "snooze" /\ bret.before = U32Max
    /\ backoff.current_step = U32Max /\ IsSome(bret.slept)

\* the script of the coin is the one derived at its coin path
ScriptDerived(coin) ==
    /\ IsSome(coin.coin_path.index)
    /\ ~hardened(Unwrap(coin.coin_path.index))
    /\ coin.txout.script_pubkey
         = Wpkh(coin.coin_path.depth, Unwrap(coin.coin_path.index))

\* C30 (as stated): sign refuses every transaction that already has an input
\* with TxAlreadyHasInput, whatever the coin; it refuses a coin whose script
\* is not the script derived at its coin path with CoinPath; on success the
\* returned input carries the coin's outpoint and sequence, a non-empty
\* witness signed with ALL|ANYONECANPAY and the coin's value as amount, and
\* the caller's transaction has no input.
C30_Original ==
    IsSome(sgn.res) =>
      LET utx == Unwrap(sgn.tx)
          coin == Unwrap(sgn.coin)
          res == Unwrap(sgn.res)
      IN /\ utx.input # <<>> => res = SignErr("TxAlreadyHasInput")
         /\ (utx.input = <<>> /\ ~ScriptDerived(coin))
              => res = SignErr("CoinPath")
         /\ res.status = "Ok" =>
              /\ Unwrap(res.txin).previous_output = coin.outpoint
              /\ Unwrap(res.txin).sequence = coin.sequence
              /\ Unwrap(res.txin).witness # EmptyWitness
              /\ Unwrap(res.txin).witness[1].sighash_type
                   = AllPlusAnyoneCanPay
              /\ res.amount = Some(coin.txout.value)
              /\ utx.input = <<>>

\* ------------------------------------------------------------------------
\* The builder setters of Joinstr (SpecBuilder): a handle made by
\* Joinstr::new, every setter called in any order and with any argument,
\* before and after start_coinjoin(None) posts the pool

MaxRelays == 3

\* Joinstr::new: one relay, no parameter set
NoParams ==
    [denomination |-> None, peers |-> None, timeout |-> None, fee |-> None]

\* denominations in tenths of a satoshi: 0.01 BTC, 0.02 BTC, an amount with
\* a fraction of a satoshi, a negative amount
DenominationArgs == {10 * Denomination, 20 * Denomination, 15, 0 - 10}
PeersArgs == 0 .. 3
TimeoutArgs == {2, 3}
FeeArgs == {FeeRate, 2 * FeeRate}

\* Amount::from_btc on an amount in tenths of a satoshi
from_btc(d) == IF d < 0 \/ d % 10 # 0 THEN None ELSE Some(d \div 10)

\* slip: pool_not_exists never fails
pool_not_exists_never(p) == "Ok"

\* JoinstrInner::pool_not_exists
pool_not_exists(p) == IF IsSome(p) THEN "PoolAlreadyExists" ELSE "Ok"

\* what a setter returns and the parameters it leaves
SetRes(res, ps) == [res |-> res, params |-> ps]

\* Joinstr::denomination
Joinstr_denomination(pl, ps, d) ==
    IF pool_not_exists(pl) # "Ok" THEN SetRes(pool_not_exists(pl), ps)
    ELSE IF ps.denomination = None
    THEN IF from_btc(d) = None THEN SetRes("WrongDenomination", ps)
         ELSE SetRes("Ok", [ps EXCEPT !.denomination = from_btc(d)])
    ELSE SetRes("DenominationAlreadySet", ps)

\* Joinstr::min_peers
Joinstr_min_peers(pl, ps, n) ==
    IF n < 2 THEN SetRes("Min2Peers", ps)
    ELSE IF pool_not_exists(pl) # "Ok" THEN SetRes(pool_not_exists(pl), ps)
    ELSE IF ps.peers = None
    THEN SetRes("Ok", [ps EXCEPT !.peers = Some(n)])
    ELSE SetRes("PeersAlreadySet", ps)

\* Joinstr::simple_timeout
Joinstr_simple_timeout(pl, ps, t) ==
    IF pool_not_exists(pl) # "Ok" THEN SetRes(pool_not_exists(pl), ps)
    ELSE IF ps.timeout = None
    THEN SetRes("Ok", [ps EXCEPT !.timeout =
                           Some([kind |-> "Simple", t |-> t,
                                 max_duration |-> 0])])
    ELSE SetRes("TimeoutAlreadySet", ps)

\* Joinstr::fee
Joinstr_fee(pl, ps, f) ==
    IF pool_not_exists(pl) # "Ok" THEN SetRes(pool_not_exists(pl), ps)
    ELSE IF ps.fee = None
    THEN SetRes("Ok", [ps EXCEPT !.fee = Some(f)])
    ELSE SetRes("FeeAlreadySet", ps)

\* Joinstr::relay: the url is pushed, nothing is write-once
Joinstr_relay(pl, ps) == SetRes(pool_not_exists(pl), ps)

\* the field a setter writes
SetterField == [denomination |-> "denomination", min_peers |-> "peers",
                simple_timeout |-> "timeout", fee |-> "fee"]

\* one call of a setter on the handle; the engine may be anywhere
Setter(op, arg, r) ==
    /\ params' = r.params
    /\ bld' = [op |-> op, arg |-> arg,
               had |-> IF op = "relay" THEN None
                       ELSE params[SetterField[op]],
               pool |-> pool, res |-> r.res,
               relays |-> IF op = "relay" /\ r.res = "Ok"
                          THEN bld.relays + 1 ELSE bld.relays]
    /\ UNCHANGED <<pc, now, pool, electrum, input, output, coinjoin,
                   final_tx, clientKey, initiator, signer, peers, cj,
                   expired, result, ro_result, sent, broadcasts, log,
                   lateJoin, rejected, gentx, rx>>
    /\ UNCHANGED notBuilder

SetDenomination ==
    \E d \in DenominationArgs :
        Setter("denomination", d, Joinstr_denomination(pool, params, d))

SetMinPeers ==
    \E n \in PeersArgs : Setter("min_peers", n, Joinstr_min_peers(pool, params, n))

SetSimpleTimeout ==
    \E t \in TimeoutArgs :
        Setter("simple_timeout", t, Joinstr_simple_timeout(pool, params, t))

SetFee == \E f \in FeeArgs : Setter("fee", f, Joinstr_fee(pool, params, f))

SetRelay ==
    /\ bld.relays < MaxRelays
    /\ Setter("relay", 0, Joinstr_relay(pool, params))

\* start_coinjoin(None, ..) on the handle: the initiator posts its pool
BuilderStart ==
    /\ pc = "idle"
    /\ pc' = "post"
    /\ initiator' = TRUE
    /\ rx' = NoRx
    /\ UNCHANGED <<now, pool, electrum, input, output, coinjoin, final_tx,
                   clientKey, signer, peers, cj, expired, result, ro_result,
                   sent, broadcasts, log, lateJoin, rejected, gentx, params>>
    /\ UNCHANGED <<notBuilder, uvars>>

BuilderPost == Post /\ UNCHANGED <<notBuilder, uvars>>

BuilderInit ==
    /\ pc = "idle" /\ now = 0 /\ pool = None /\ electrum = FALSE
    /\ input = None /\ output = None /\ params = NoParams
    /\ coinjoin = None /\ final_tx = None /\ clientKey = kSelf
    /\ initiator = FALSE /\ signer = FALSE /\ peers = {}
    /\ cj = CoinJoin_new(Denomination, FALSE) /\ expired = 0
    /\ result = None /\ ro_result = None /\ sent = <<>>
    /\ broadcasts = <<>> /\ log = <<>> /\ lateJoin = FALSE
    /\ rejected = {} /\ gentx = None /\ rx = NoRx
    /\ AsmIdle
    /\ CodecIdle
    /\ WorkerIdle
    /\ LockIdle
    /\ ListPoolsIdle
    /\ BuilderIdle
    /\ BackoffIdle
    /\ SignerIdle

BuilderNext ==
    \/ SetDenomination
    \/ SetMinPeers
    \/ SetSimpleTimeout
    \/ SetFee
    \/ SetRelay
    \/ BuilderStart
    \/ BuilderPost

SpecBuilder == BuilderInit /\ [][BuilderNext]_vars

\* a setter has just been called
SetterCalled == bld.op # "new"

\* the error of a second call of each setter
AlreadySet == [denomination |-> "DenominationAlreadySet",
               min_peers |-> "PeersAlreadySet",
               simple_timeout |-> "TimeoutAlreadySet",
               fee |-> "FeeAlreadySet"]

\* the last call was min_peers(n) with n < 2
BelowTwoPeers == bld.op = "min_peers" /\ bld.arg < 2

\* what the last setter call returned, by precedence of the checks
SetterResults ==
    SetterCalled =>
        /\ BelowTwoPeers => bld.res = "Min2Peers"
        /\ IsSome(bld.pool) /\ ~BelowTwoPeers => bld.res = "PoolAlreadyExists"
        /\ bld.op # "relay" /\ bld.res = "Ok" =>
               bld.had = None /\ bld.pool = None
        /\ bld.op # "relay" /\ IsSome(bld.had) /\ bld.pool = None
             /\ ~BelowTwoPeers => bld.res = AlreadySet[bld.op]

ParamFields == {"denomination", "peers", "timeout", "fee"}

\* a field once set keeps its value, a failing setter changes no field, a
\* pool set freezes every field
ParamsFrozen ==
    /\ \A f \in ParamFields : IsSome(params[f]) => params'[f] = params[f]
    /\ bld' # bld /\ bld'.res # "Ok" => params' = params
    /\ IsSome(pool) => params' = params

\* post returns with a parameter missing
PostIncomplete ==
    /\ pc = "post" /\ pc' # "post"
    /\ \E f \in ParamFields : params[f] = None

\* C31: a pool parameter is written at most once and frozen by the pool:
\* min_peers(n) with n < 2 returns Min2Peers; any other setter call returns
\* PoolAlreadyExists once a pool is set; a call of denomination, min_peers,
\* simple_timeout or fee succeeds only on an unset field of a handle without
\* pool, and on a field already set of such a handle returns the matching
\* AlreadySet error; a field that is set never changes, and a failing call
\* changes none; post with a parameter missing returns ParamMissing, sets
\* no pool and publishes nothing
C31_WriteOnce ==
    /\ []SetterResults
    /\ [][ParamsFrozen]_vars
    /\ [][PostIncomplete =>
            /\ result' = Some(R("ParamMissing"))
            /\ sent' = sent /\ pool' = pool]_vars

\* fee(n) on a handle whose pool is posted: PoolAlreadyExists, fee kept
C31_Witness ==
    /\ bld.op = "fee" /\ bld.arg # FeeRate /\ IsSome(bld.pool)
    /\ bld.res = "PoolAlreadyExists"
    /\ params.fee = Some(FeeRate)
    /\ Len(sent) = 1

\* ------------------------------------------------------------------------
\* interface::join_coinjoin (SpecJoin): the engine of a participant built by
\* new_peer_with_electrum from the decoded pool, started as join_coinjoin
\* starts it

\* the pool whose announcement join_coinjoin is given
DecodedPool ==
    Pool(kPool, Some(PoolPayload([kind |-> "Simple", t |-> 2,
                                  max_duration |-> 0])))

\* Joinstr::new_peer: the parameters of the pool's payload, through the
\* setters; the pool itself is not stored
new_peer_params(pl) ==
    LET pp == Unwrap(pl.payload)
    IN [denomination |-> Some(pp.denomination), peers |-> Some(pp.peers),
        timeout |-> Some([kind |-> "Simple", t |-> pp.timeout.t,
                          max_duration |-> 0]),
        fee |-> Some(pp.fee)]

\* the participant join_coinjoin builds with new_peer_with_electrum
JoinInit ==
    /\ pc = "idle" /\ now = 0 /\ pool = None /\ electrum = TRUE
    /\ input = Some("o1") /\ output = Some("aOwn")
    /\ params = new_peer_params(DecodedPool)
    /\ coinjoin = None /\ final_tx = None /\ clientKey = kSelf
    /\ initiator = FALSE /\ signer = FALSE /\ peers = {}
    /\ cj = CoinJoin_new(Denomination, FALSE) /\ expired = 0
    /\ result = None /\ ro_result = None /\ sent = <<>>
    /\ broadcasts = <<>> /\ log = <<>> /\ lateJoin = FALSE
    /\ rejected = {} /\ gentx = None /\ rx = NoRx
    /\ AsmIdle
    /\ CodecIdle
    /\ WorkerIdle
    /\ LockIdle
    /\ ListPoolsIdle
    /\ BuilderIdle
    /\ BackoffIdle
    /\ SignerIdle

\* join_coinjoin: joinstr_peer.start_coinjoin(None, Some(&signer))
JoinCoinjoin ==
    /\ pc = "idle"
    /\ initiator' = TRUE
    /\ signer' = TRUE
    /\ pc' = "post"
    /\ rx' = NoRx
    /\ UNCHANGED <<now, pool, electrum, input, output, coinjoin, final_tx,
                   clientKey, peers, cj, expired, result, ro_result, sent,
                   broadcasts, log, lateJoin, rejected, gentx, params>>

JoinNext ==
    \/ Tick /\ UNCHANGED notEngine
    \/ JoinCoinjoin /\ UNCHANGED notEngine
    \/ Post /\ UNCHANGED notEngine
    \/ RegisterOutputs /\ UNCHANGED notEngine
    \/ PeerReg /\ UNCHANGED notEngine
    \/ RegisterOutput /\ UNCHANGED notEngine
    \/ OutReg /\ UNCHANGED notEngine
    \/ RegisterOutputsReturn /\ UNCHANGED notEngine
    \/ GenerateUnsignedTx /\ UNCHANGED notEngine
    \/ RegisterInput /\ UNCHANGED notEngine
    \/ RegisterInputs /\ UNCHANGED notEngine
    \/ InReg /\ UNCHANGED notEngine
    \/ RegisterInputsReturn /\ UNCHANGED notEngine
    \/ BroadcastTx /\ UNCHANGED notEngine

SpecJoin == JoinInit /\ [][JoinNext]_vars

\* the messages sent so far that announce a pool
Announcements == {i \in 1..Len(sent) : sent[i].msg.type = "pool"}

\* ---- C32
\* C32 as stated: join_coinjoin runs the engine in the peer role against
\* the decoded pool: once started the participant is not the initiator and
\* never publishes a pool announcement of its own, and when it registers
\* outputs it has the decoded pool as its pool and has sent Join to that
\* pool's public key.
C32_Original ==
    pc # "idle" =>
        /\ ~initiator
        /\ Announcements = {}
        /\ pc \notin {"post", "failed"} =>
               /\ \E i \in 1..Len(sent) :
                      sent[i] = [to |-> DecodedPool.public_key,
                                 msg |-> Join(clientKey)]
               /\ IsSome(pool) /\ Unwrap(pool).public_key
                                     = DecodedPool.public_key

\* ------------------------------------------------------------------------
\* interface::list_pools (SpecListPools): the loop that drains the relay
\* client after the sleep, on any events pending

MaxPending == 3

\* Kind::Custom(2022) of a pool announcement, and the kind of a NIP04 message
KindPool == "Custom(2022)"
KindDm == "EncryptedDirectMessage"

\* the content of an event: the json of one of two pools, or anything else
PoolContents == {"poolA", "poolB"}
EventContents == PoolContents \cup {"garbage"}

PendingEvents == [kind : {KindPool, KindDm}, content : EventContents]

RECURSIVE SeqsUpTo(_, _)
SeqsUpTo(S, n) ==
    IF n = 0 THEN {<<>>}
    ELSE LET shorter == SeqsUpTo(S, n - 1)
         IN shorter \cup {Append(q, e) : q \in shorter, e \in S}

\* serde_json::from_str::<Pool> / serde_json::to_string(&pool)
pool_from_str(c) ==
    IF c \in PoolContents THEN Some([id |-> c, type |-> "create"]) ELSE None
pool_to_string(pl) == pl.id

\* Pool::try_from(event).ok()
pool_try_from(ev) ==
    IF ev.kind = KindPool THEN pool_from_str(ev.content) ELSE None

\* NostrClient::receive_pool_notification when try_receive does not fail:
\* the next event is taken; Some(pool) if it converts, None otherwise
receive_pool_notification(q) ==
    IF q = <<>> THEN [pool |-> None, rest |-> q]
    ELSE [pool |-> pool_try_from(Head(q)), rest |-> Tail(q)]

\* one iteration of `while let Some(pool) = receive_pool_notification()?`
ListPoolsStep ==
    /\ lst.pc = "drain"
    /\ \E closed \in BOOLEAN :
         IF closed
         THEN lst' = [lst EXCEPT !.pc = "done", !.res = "NostrClient"]
         ELSE LET r == receive_pool_notification(lst.pending)
              IN IF IsSome(r.pool)
                 THEN lst' = [lst EXCEPT
                                 !.pending = r.rest,
                                 !.pools = Append(@, pool_to_string(
                                                         Unwrap(r.pool)))]
                 ELSE lst' = [lst EXCEPT !.pending = r.rest, !.pc = "done",
                                         !.res = "Ok"]
    /\ UNCHANGED notListPools

\* the relay delivers one more event while list_pools drains
ListPoolsArrive ==
    /\ lst.pc = "drain"
    /\ Len(lst.pending) + Len(lst.pools) < MaxPending
    /\ \E e \in PendingEvents :
         lst' = [lst EXCEPT !.pending = Append(@, e)]
    /\ UNCHANGED notListPools

ListPoolsInit ==
    /\ EngineIdle
    /\ AsmIdle
    /\ CodecIdle
    /\ WorkerIdle
    /\ LockIdle
    /\ BuilderIdle
    /\ BackoffIdle
    /\ SignerIdle
    /\ \E q \in SeqsUpTo(PendingEvents, MaxPending) :
         lst = [pc |-> "drain", start |-> q, pending |-> q, pools |-> <<>>,
                res |-> ""]

ListPoolsNext ==
    \/ ListPoolsStep
    \/ ListPoolsArrive

SpecListPools == ListPoolsInit /\ [][ListPoolsNext]_vars

\* the pool announcements among the events q, as list_pools returns them
RECURSIVE PoolsOf(_)
PoolsOf(q) ==
    IF q = <<>> THEN <<>>
    ELSE IF IsSome(pool_try_from(Head(q)))
    THEN <<pool_to_string(Unwrap(pool_try_from(Head(q))))>> \o PoolsOf(Tail(q))
    ELSE PoolsOf(Tail(q))

IsPrefix(a, b) == Len(a) <= Len(b) /\ SubSeq(b, 1, Len(a)) = a

\* ---- C33
\* C33 as stated: when list_pools returns its list, the list holds every
\* pool announcement that was pending when draining started, in order,
\* whatever other events were pending before or between them.
C33_Original ==
    lst.pc = "done" /\ lst.res = "Ok" => IsPrefix(PoolsOf(lst.start), lst.pools)

\* ------------------------------------------------------------------------
\* The state mutex around the engine's steps (SpecLock): each step of the
\* engine takes `self.inner.lock()`; `lock` tells the step that took it last
\* and the blocking operations it made before the guard was dropped. The
\* snoozes and rand_delay run between the steps, after drop(inner).

\* the section of step `by`, which made the blocking operations `during`
Section(by, during) == [by |-> by, during |-> during]

\* a step of the engine under the mutex
Locked(A, by, during) ==
    /\ A
    /\ lock' = Section(by, during)
    /\ UNCHANGED notLock

\* join_pool's loop: on matching credentials new_client.connect_nostr() runs
\* before the guard goes out of scope; told here by the client it installed
\* (a connect that failed returns like a failed receive and is left out)
WaitCredentialsBlocking ==
    IF clientKey' # clientKey THEN {"connect_nostr"} ELSE {}

\* start_coinjoin: `self.inner.lock().expect("poisoned").broadcast_tx()?`,
\* broadcast_tx calls client.broadcast(&tx) when it has a chain client
BroadcastTxBlocking ==
    IF broadcast_tx_check(coinjoin).name = "Ok" /\ electrum
    THEN {"broadcast"} ELSE {}

LockInit ==
    /\ pc = "idle" /\ now = 0 /\ pool = None /\ electrum = TRUE
    /\ input = Some("o1") /\ output = Some("aOwn") /\ params = FullParams
    /\ coinjoin = None /\ final_tx = None /\ clientKey = kSelf
    /\ initiator = FALSE /\ signer = FALSE /\ peers = {}
    /\ cj = CoinJoin_new(Denomination, FALSE) /\ expired = 0
    /\ result = None /\ ro_result = None /\ sent = <<>>
    /\ broadcasts = <<>> /\ log = <<>> /\ lateJoin = FALSE
    /\ rejected = {} /\ gentx = None /\ rx = NoRx
    /\ AsmIdle
    /\ CodecIdle
    /\ WorkerIdle
    /\ LockIdle
    /\ ListPoolsIdle
    /\ BuilderIdle
    /\ BackoffIdle
    /\ SignerIdle

LockNext ==
    \/ Tick /\ UNCHANGED <<notLock, lock>>
    \/ Locked(StartCoinjoin, "start_coinjoin", {})
    \/ Locked(Post, "post", {})
    \/ Locked(JoinPool, "join_pool", {})
    \/ Locked(WaitCredentials, "join_pool", WaitCredentialsBlocking)
    \/ Locked(RegisterOutputs, "register_outputs", {})
    \/ Locked(PeerReg, "register_outputs", {})
    \/ Locked(RegisterOutput, "register_outputs", {})
    \/ Locked(OutReg, "register_outputs", {})
    \/ Locked(RegisterOutputsReturn, "register_outputs", {})
    \/ Locked(GenerateUnsignedTx, "generate_unsigned_tx", {})
    \/ Locked(RegisterInput, "register_input", {})
    \/ Locked(RegisterInputs, "register_inputs", {})
    \/ Locked(InReg, "register_inputs", {})
    \/ Locked(RegisterInputsReturn, "register_inputs", {})
    \/ Locked(BroadcastTx, "broadcast_tx", BroadcastTxBlocking)

SpecLock == LockInit /\ [][LockNext]_vars

\* ---- C34
\* C34 as stated: the engine holds the state mutex only for single
\* non-blocking receive and send steps: no section under the mutex contains
\* a backoff snooze, the random delay between phases, a blocking chain call
\* (the broadcast included) or a relay connect.
C34_Original == lock.during = {}

\* ------------------------------------------------------------------------
\* start_coinjoin called again on the handle (SpecRestart): the engine, and
\* a further call of start_coinjoin once a call has returned

\* start_coinjoin on a handle whose earlier call returned: its first lines
Restart ==
    /\ pc \in {"done", "failed"}
    /\ \E p \in PoolArgs, s \in BOOLEAN :
         /\ initiator' = (p = None)
         /\ signer' = s
         /\ IF IsSome(p)
            THEN IF IsSome(pool)
                 THEN Return(R("PoolAlreadyExists")) /\ UNCHANGED pool
                 ELSE pool' = p /\ pc' = "join_pool" /\ UNCHANGED result
            ELSE pc' = "post" /\ UNCHANGED <<pool, result>>
    /\ rx' = NoRx
    /\ UNCHANGED <<now, electrum, input, output, coinjoin, final_tx,
                   clientKey, peers, cj, expired, ro_result, sent,
                   broadcasts, log, lateJoin, rejected, gentx, params>>

RestartNext ==
    \/ Next
    \/ Restart /\ UNCHANGED notEngine

\* the participant of SpecLock: a chain client, a coin, an address
RestartInit == LockInit

SpecRestart == RestartInit /\ [][RestartNext]_vars

\* the announcement post publishes for the pool pl
Announcement(pl) ==
    [to |-> "relay", msg |-> Msg("pool", pl.public_key, pl.id, "", NoInput)]

\* post returns
PostReturns == pc = "post" /\ pc' # "post"

\* post: an announcement is published exactly when the pool is set, it is
\* the announcement of that pool, and a failing post changes no parameter
PostPublishes ==
    PostReturns =>
        /\ pc' \in {"register_outputs", "failed"}
        /\ IF pc' = "register_outputs"
           THEN /\ pool = None /\ IsSome(pool')
                /\ Unwrap(pool').public_key = clientKey
                /\ sent' = Append(sent, Announcement(Unwrap(pool')))
           ELSE pool' = pool /\ sent' = sent
        /\ params' = params

\* a call of start_coinjoin on a handle that has a pool fails before it
\* sends anything
SecondStartFails ==
    IsSome(pool) /\ (pc \in {"done", "failed"} \/ PostReturns) =>
        /\ pc' \in {pc, "post", "failed"}
        /\ sent' = sent
        /\ pc' = "failed" => result' \in {Some(R("PoolAlreadyExists")),
                                          Some(R("ParamMissing"))}

\* C35: post publishes one create announcement and sets the local pool
\* only if the publish succeeded, a failed publish leaves pool and
\* parameters as they were; no handle ever publishes a second announcement,
\* a start on a handle that has a pool publishes nothing and fails; a pool
\* once set is never modified
C35_PostOnce ==
    /\ [](Cardinality(Announcements) <= 1)
    /\ [][PostPublishes]_vars
    /\ [][SecondStartFails]_vars
    /\ [][IsSome(pool) => pool' = pool]_vars

\* a second start_coinjoin(None, ..) of an initiator whose round is over:
\* ParamMissing, one announcement in all
C35_Witness ==
    /\ pc = "failed" /\ result = Some(R("ParamMissing"))
    /\ IsSome(pool) /\ Cardinality(Announcements) = 1
    /\ IsSome(params.fee)
    /\ "broadcast" \in {log[i] : i \in 1..Len(log)}

\* the Input DMs sent so far
InputDms == {i \in 1..Len(sent) : sent[i].msg.type = "input"}

\* start_coinjoin leaves the step that follows generate_unsigned_tx
RegisterInputReturns == pc = "rand_delay_2" /\ pc' # pc

\* C36: a participant that holds a coin and was given no signer returns
\* SignerMissing and sends nothing; with a signer, when register_input
\* succeeds the coin is sent signed as one Input DM to the pool's key and
\* the participant holds no coin afterwards; an Input DM is sent by that
\* step only, so a handle sends at most one, and never while it still
\* holds the coin
C36_InputOnce ==
    /\ [](Cardinality(InputDms) <= 1 /\ (InputDms # {} => input = None))
    /\ [][RegisterInputReturns /\ IsSome(input) /\ ~signer =>
            /\ pc' = "failed" /\ result' = Some(R("SignerMissing"))
            /\ sent' = sent /\ input' = input]_vars
    /\ [][RegisterInputReturns /\ IsSome(input) /\ signer
            /\ pc' = "register_inputs" =>
            /\ sent' = Append(sent,
                   [to |-> Unwrap(pool).public_key,
                    msg |-> Input(SignedInput(Unwrap(input),
                                              ChainValue(Unwrap(input))))])
            /\ input' = None]_vars
    /\ [][InputDms' # InputDms =>
            RegisterInputReturns /\ IsSome(input) /\ signer]_vars

\* the round is over, the one Input DM was sent and the coin is gone
C36_Witness ==
    /\ pc = "done" /\ signer /\ input = None
    /\ Cardinality(InputDms) = 1

\* ---- C37
\* C37 as stated: register_inputs returns success if and only if the
\* assembler holds a finalized transaction: when it returns without one it
\* returns Timeout, so broadcast_tx is never reached without a finalized
\* transaction and never returns MissingFinalTx; when the transaction was
\* finalized before the deadline it returns success and goes on to
\* broadcast.
C37_Original ==
    /\ pc = "broadcast_tx" => Finalized
    /\ result # Some(R("MissingFinalTx"))
    /\ pc = "ri_check" /\ Finalized /\ now < expired =>
           register_inputs_check(now, expired).name = "Ok"

\* ---- C38
\* C38 as stated: whatever message reaches a participant that is in the
\* output loop of register_outputs, a signed Input DM included, the step
\* that takes it neither crashes nor aborts the participant: it stays in
\* the loop or goes on to the check that ends output registration.
C38_Original == [][pc = "out_reg" => pc' \in {"out_reg", "ro_check"}]_vars

\* the step re-sent the batch in flight and the link failed
ResendFailed == wsent' # <<>> /\ ~wsent'[1].ok

\* ---- C39
\* C39 as stated: while its consumer listens and the link takes what the
\* worker sends, the worker handles whatever the server answers, the
\* answers to a batch it sent again and notifications included, without
\* failing: the step that receives from the server neither panics nor ends
\* the worker, also on a second History or Subscribe answer for an id it
\* has processed.
C39_Original ==
    [][wpc = "respond" /\ send.alive /\ ~ResendFailed =>
         wpc' \in {"intake", "respond"}]_vars

\* the participants that owe the round an output: the peers whose Join was
\* registered, and the local participant when it holds an address
OutputOwners == peers \cup (IF IsSome(output) THEN {kSelf} ELSE {})

\* ---- C40
\* C40 as stated: when register_outputs succeeds, the assembler it stores
\* holds one output for each distinct peer that sent Join, and the local
\* participant's own output when it holds one, the initiator's included.
C40_Original ==
    ro_result = Some(R("Ok")) =>
        /\ IsSome(coinjoin)
        /\ outputs_len(Unwrap(coinjoin)) = Cardinality(OutputOwners)
        /\ IsSome(output) => Unwrap(output) \in
               {Unwrap(coinjoin).outputs[i].address :
                    i \in 1..Len(Unwrap(coinjoin).outputs)}
====
